---- MODULE Spec2Model ----
(***************************************************************************)
(* VeriTrace data-reliability platform: the validation engine              *)
(* (AnomalyDetector, DataQualityValidator, DataReliabilityPlatform         *)
(* .validate_data) and the full_pipeline orchestration around it.          *)
(*                                                                         *)
(* Numbers that are floats in the program are kept exact: a rate or a      *)
(* percentage is a pair num/den, contamination is held in hundredths and   *)
(* eps in tenths, and the cells of the prepared numeric matrix are held    *)
(* doubled (a median of two integers is a half-integer).                   *)
(* What scikit-learn computes (the isolation scores, the cluster labels)   *)
(* is an input of the call: the set of rows the library labels -1.         *)
(***************************************************************************)
EXTENDS Integers, Sequences, FiniteSets, TLC

VARIABLES
    isolation_config,   \* AnomalyDetector.isolation_config
    dbscan_config,      \* AnomalyDetector.dbscan_config
    scaler,             \* AnomalyDetector.scaler: are its fitted attributes set
    isolation_forest,   \* AnomalyDetector.isolation_forest: None or an estimator
    dbscan,             \* AnomalyDetector.dbscan: None or an estimator
    pca,                \* AnomalyDetector.pca: None, or a PCA object (fitted or not)
    pc,                 \* where the caller of validate_data is
    df,                 \* the dataset of the call in progress
    validation_config,  \* the per-call override of the call in progress
    lib,                \* what the library calls of this call answered
    outcome,            \* what the call gave back: a result or the error it raised
    run,                \* the arguments of the full_pipeline run in progress
    started,            \* the stages this run has started, in order
    succeeded,          \* the stages this run has completed, in order
    results,            \* pipeline_results of the run in progress
    audit_log,          \* the audit log file of AuditLogger
    catalog,            \* the catalog file of MetadataManager
    disk,               \* the processed output files: path to the run that wrote it
    clock,              \* datetime.now(): the number of the run
    branches,           \* the branches of a validate_data call that run side by side
    forest_fits,        \* what a seeded IsolationForest answered, by what it was fitted on
    calls               \* the other calls in progress: their arguments and local variables

----------------------------------------------------------------------------
(* Bounds of the model *)

\* rows of an enumerated dataset
MaxRows == 2
\* columns of an enumerated dataset
MaxCols == 1
\* the library may label -1 only rows among the first MaxFlagRow
MaxFlagRow == 2

----------------------------------------------------------------------------
(* Program constants *)

\* anomaly_detection.py:159  if data.shape[1] > 10
PCAThreshold == 10
\* anomaly_detection.py:160  PCA(n_components=min(10, data.shape[1]))
PCAComponents == 10
\* anomaly_detection.py:113  default contamination 0.01, in hundredths
DefaultContamination == 1
\* anomaly_detection.py:115  default random_state
DefaultRandomState == 42
\* anomaly_detection.py:152  default eps 0.5, in tenths
DefaultEps == 5
\* anomaly_detection.py:154  default min_samples
DefaultMinSamples == 5
\* data_quality.py:72  severity high above 50 percent missing
MissingHighPct == 50
\* data_quality.py:72  severity medium above 10 percent missing
MissingMediumPct == 10
\* data_quality.py:90  severity medium above 5 percent duplicated
DuplicateMediumPct == 5
\* data_quality.py:127  |z-score| > 3
OutlierZ == 3
\* data_quality.py:138  severity medium above 5 percent outliers
OutlierMediumPct == 5

----------------------------------------------------------------------------
(* Small helpers *)

Min(a, b) == IF a < b THEN a ELSE b

Range(s) == {s[i] : i \in DOMAIN s}

RECURSIVE SumOver(_, _)
\* sum of f[i] over the finite set S of indices
SumOver(f, S) ==
    IF S = {} THEN 0
    ELSE LET i == CHOOSE j \in S : TRUE IN f[i] + SumOver(f, S \ {i})

RECURSIVE SumRange(_, _, _)
\* f[lo] + ... + f[hi], by halves
SumRange(f, lo, hi) ==
    IF lo > hi THEN 0
    ELSE IF lo = hi THEN f[lo]
    ELSE SumRange(f, lo, (lo + hi) \div 2) + SumRange(f, (lo + hi) \div 2 + 1, hi)

\* the elements of a finite set of integers, ascending
Ascending(S) ==
    [k \in 1..Cardinality(S) |->
        CHOOSE j \in S : Cardinality({m \in S : m < j}) = k - 1]

\* the subsequence of s at the positions idx, in order
SelectIdx(s, idx) == [k \in 1..Cardinality(idx) |-> s[Ascending(idx)[k]]]

\* a Python dict is a function from its keys; d.get(k, default)
EmptyDict == <<>>
Get(d, k, default) == IF k \in DOMAIN d THEN d[k] ELSE default

\* a float that is a quotient of two integers
Ratio(a, b) == [num |-> a, den |-> b]
RatEq(r, a, b) == r.num * b = a * r.den

----------------------------------------------------------------------------
(* Datasets: a pandas DataFrame is its row count and its ordered columns.   *)

Null == [k |-> "null"]
Num(v) == [k |-> "num", v |-> v]
Str(s) == [k |-> "str", s |-> s]
\* a cell that holds a Python list (JSON ingestion keeps nested arrays)
ListCell == [k |-> "list"]

IsNull(c) == c.k = "null"

\* a conversion that refuses a missing cell
ParsesNumericNoNull(c) ==
    \/ c.k = "num"
    \/ c.k = "str" /\ c.s \in {"12", "7"}

\* does pd.to_numeric accept the cell
ParsesNumeric(c) ==
    \/ c.k = "null"
    \/ c.k = "num"
    \/ c.k = "str" /\ c.s \in {"12", "7"}

ColNames == <<"c1", "c2", "c3", "c4", "c5", "c6", "c7", "c8", "c9", "c10",
              "c11", "c12", "c13">>

\* the shapes of a numeric column of n rows
NumericShapes(n) ==
    { [i \in 1..n |-> Num(1)],                                 \* constant
      [i \in 1..n |-> Num(i % 2)],                             \* varying
      [i \in 1..n |-> IF i = 1 THEN Null ELSE Num(i % 2)],     \* one cell missing
      [i \in 1..n |-> Null] }                                  \* all missing

\* the shapes of a text (object) column of n rows
ObjectShapes(n) ==
    { [i \in 1..n |-> Str("12")],                               \* numbers as text
      [i \in 1..n |-> IF i = 1 THEN Str("7") ELSE Str("abc")],  \* mixed text
      [i \in 1..n |-> IF i = 1 THEN Null ELSE Str("12")],       \* one cell missing
      [i \in 1..n |-> IF i = 1 THEN ListCell ELSE Str("abc")] } \* an unhashable cell

RawColumns(n) ==
    {[dtype |-> "float64", vals |-> v] : v \in NumericShapes(n)}
        \cup {[dtype |-> "object", vals |-> v] : v \in ObjectShapes(n)}

Frame(n, raw) ==
    [frame |-> TRUE, n |-> n,
     cols |-> [i \in 1..Len(raw) |->
                 [name |-> ColNames[i], dtype |-> raw[i].dtype, vals |-> raw[i].vals]]]

\* every dataset of at most MaxRows rows and MaxCols columns of these shapes
EnumFrames ==
    UNION {{Frame(n, raw) : raw \in UNION {[1..k -> RawColumns(n)] : k \in 0..MaxCols}}
             : n \in 0..MaxRows}

\* two-column datasets whose first column is numeric and not constant
MixedFrames ==
    {Frame(MaxRows, <<[dtype |-> "float64", vals |-> [i \in 1..MaxRows |-> Num(i % 2)]], b>>)
        : b \in RawColumns(MaxRows)}

\* datasets with more numeric columns than the PCA threshold, with too few
\* rows for PCA(n_components=10) and with just enough
WideFrames ==
    {Frame(n, [c \in 1..(PCAThreshold + 1) |->
                 [dtype |-> "float64", vals |-> [i \in 1..n |-> Num((i + c) % 2)]]])
        : n \in {MaxRows, PCAComponents}}

\* datasets of one row more whose first numeric column has a missing cell
\* that the median fills, beside a numeric column that is dropped: constant,
\* or all missing
GapFrames ==
    {Frame(MaxRows + 1,
           <<[dtype |-> "float64",
              vals |-> [i \in 1..(MaxRows + 1) |-> IF i = 1 THEN Null ELSE Num(i % 2)]],
             [dtype |-> "float64", vals |-> v]>>)
        : v \in {[i \in 1..(MaxRows + 1) |-> Num(1)], [i \in 1..(MaxRows + 1) |-> Null]}}

Frames == EnumFrames \cup MixedFrames \cup WideFrames \cup GapFrames

\* validate_data is handed something that is no DataFrame (None)
NotAFrame == [frame |-> FALSE, n |-> 0, cols |-> <<>>]

Datasets == Frames \cup {NotAFrame}

----------------------------------------------------------------------------
(* AnomalyDetector._prepare_numeric_data *)

NonNull(vals) == {i \in DOMAIN vals : ~IsNull(vals[i])}

\* the k-th smallest of the non-null values of a column
Kth(vals, k) ==
    CHOOSE v \in {vals[i].v : i \in NonNull(vals)} :
        /\ Cardinality({i \in NonNull(vals) : vals[i].v < v}) < k
        /\ k <= Cardinality({i \in NonNull(vals) : vals[i].v <= v})

\* twice the median of the non-null values (pandas skips NaN); needs one value
Median2(vals) ==
    LET m == Cardinality(NonNull(vals))
    IN  IF m % 2 = 1 THEN 2 * Kth(vals, (m + 1) \div 2)
        ELSE Kth(vals, m \div 2) + Kth(vals, m \div 2 + 1)

\* fillna(median), cells doubled; a column with no value keeps its NaN
FillNa(vals) ==
    [i \in DOMAIN vals |->
        IF ~IsNull(vals[i]) THEN Num(2 * vals[i].v)
        ELSE IF NonNull(vals) = {} THEN Null
        ELSE Num(Median2(vals))]

\* numeric_data.var() > 0: the sample variance of the non-NaN cells, NaN
\* (never > 0) when there are fewer than two of them
VarPositive(vals) ==
    LET idx == NonNull(vals)
        m   == Cardinality(idx)
        s   == SumOver([i \in idx |-> vals[i].v], idx)
        q   == SumOver([i \in idx |-> vals[i].v * vals[i].v], idx)
    IN  m >= 2 /\ m * q - s * s > 0

\* df.select_dtypes(include=[np.number]).columns
NumericColumns(d) == SelectIdx(d.cols, {i \in DOMAIN d.cols : d.cols[i].dtype = "float64"})

\* a preparation that drops the rows with a missing cell (dropna) and filters
FillAndFilterDropNa(n, numeric_cols) ==
    LET rows == {i \in 1..n : \A c \in DOMAIN numeric_cols : ~IsNull(numeric_cols[c].vals[i])}
        kept == [c \in DOMAIN numeric_cols |->
                    [name |-> numeric_cols[c].name,
                     vals |-> FillNa(SelectIdx(numeric_cols[c].vals, rows))]]
    IN  [n |-> Cardinality(rows),
         cols |-> SelectIdx(kept, {c \in DOMAIN kept : VarPositive(kept[c].vals)})]

\* lines 99-108, on the numeric columns
FillAndFilter(n, numeric_cols) ==
    LET filled == [c \in DOMAIN numeric_cols |->
                     [name |-> numeric_cols[c].name, vals |-> FillNa(numeric_cols[c].vals)]]
    IN  [n |-> n,
         cols |-> SelectIdx(filled, {c \in DOMAIN filled : VarPositive(filled[c].vals)})]

PrepareNumericData(d) ==
    IF NumericColumns(d) = <<>> THEN [n |-> 0, cols |-> <<>>]
    ELSE FillAndFilter(d.n, NumericColumns(d))

\* DataFrame.empty
IsEmpty(m) == m.n = 0 \/ m.cols = <<>>

\* a preparation that fills the missing numeric cells of the frame it was
\* handed (fillna(0, inplace=True) with no copy taken)
InputFilledInPlace(d) ==
    [d EXCEPT !.cols =
        [c \in DOMAIN d.cols |->
            IF d.cols[c].dtype = "float64"
            THEN [d.cols[c] EXCEPT !.vals =
                    [i \in DOMAIN d.cols[c].vals |->
                        IF IsNull(d.cols[c].vals[i]) THEN Num(0) ELSE d.cols[c].vals[i]]]
            ELSE d.cols[c]]]

\* the frame the caller handed in, as _prepare_numeric_data leaves it: line 99
\* takes a copy of the numeric columns, and fillna (line 102) and the
\* variance filter (line 106) each return a new frame
InputAfterPrepare(d) == d

----------------------------------------------------------------------------
(* DataQualityValidator *)

MissingCount(col) == Cardinality({i \in DOMAIN col.vals : IsNull(col.vals[i])})

\* a missing-values issue whose severity steps up at the threshold itself
MissingIssueAtLeast(column, missing_count, n) ==
    [type |-> "missing_values",
     column |-> column,
     count |-> missing_count,
     percentage |-> Ratio(missing_count * 100, n),
     severity |-> IF missing_count * 100 >= MissingHighPct * n THEN "high"
                  ELSE IF missing_count * 100 >= MissingMediumPct * n THEN "medium"
                  ELSE "low"]

\* _check_missing_values; with no row the percentage is 0/0, a NaN that is
\* computed and never used
MissingIssue(column, missing_count, n) ==
    [type |-> "missing_values",
     column |-> column,
     count |-> missing_count,
     percentage |-> Ratio(missing_count * 100, n),
     severity |-> IF missing_count * 100 > MissingHighPct * n THEN "high"
                  ELSE IF missing_count * 100 > MissingMediumPct * n THEN "medium"
                  ELSE "low"]

CheckMissingValues(d) ==
    LET hit == Ascending({i \in DOMAIN d.cols : MissingCount(d.cols[i]) > 0})
    IN  [k \in DOMAIN hit |->
            MissingIssue(d.cols[hit[k]].name, MissingCount(d.cols[hit[k]]), d.n)]

RowOf(d, i) == [c \in DOMAIN d.cols |-> d.cols[c].vals[i]]

\* df.duplicated() hashes every cell: a cell holding a list raises TypeError
DuplicatedRaises(d) ==
    /\ ~IsEmpty(d)
    /\ \E c \in DOMAIN d.cols : \E i \in 1..d.n : d.cols[c].vals[i].k = "list"

\* a count of every row that has an equal anywhere in the frame, the first of
\* them too (duplicated(keep=False))
DuplicateCountKeepFalse(d) ==
    IF IsEmpty(d) THEN 0
    ELSE Cardinality({i \in 1..d.n :
            \E j \in (1..d.n) \ {i} : RowOf(d, j) = RowOf(d, i)})

\* df.duplicated().sum(): the rows equal to an earlier row (NaN equal to NaN);
\* an empty frame has none
DuplicateCount(d) ==
    IF IsEmpty(d) THEN 0
    ELSE Cardinality({i \in 1..d.n : \E j \in 1..(i - 1) : RowOf(d, j) = RowOf(d, i)})

\* _check_duplicates
CheckDuplicates(d) ==
    LET duplicate_count == DuplicateCount(d)
    IN  IF duplicate_count > 0
        THEN << [type |-> "duplicate_rows",
                 column |-> "all_columns",
                 count |-> duplicate_count,
                 percentage |-> Ratio(duplicate_count * 100, d.n),
                 severity |-> IF duplicate_count * 100 > DuplicateMediumPct * d.n
                              THEN "medium" ELSE "low"] >>
        ELSE <<>>

\* a type check whose issues are graded 'info'
CheckDataTypesInfo(d) ==
    LET hit == Ascending({i \in DOMAIN d.cols :
                    /\ d.cols[i].dtype = "object"
                    /\ \A r \in DOMAIN d.cols[i].vals : ParsesNumeric(d.cols[i].vals[r])})
    IN  [k \in DOMAIN hit |->
            [type |-> "data_type_mismatch",
             column |-> d.cols[hit[k]].name,
             current_type |-> "object",
             suggested_type |-> "numeric",
             severity |-> "info"]]

\* _check_data_types: pd.to_numeric(errors='raise') on a text column; any
\* exception is swallowed
CheckDataTypes(d) ==
    LET hit == Ascending({i \in DOMAIN d.cols :
                    /\ d.cols[i].dtype = "object"
                    /\ \A r \in DOMAIN d.cols[i].vals : ParsesNumeric(d.cols[i].vals[r])})
    IN  [k \in DOMAIN hit |->
            [type |-> "data_type_mismatch",
             column |-> d.cols[hit[k]].name,
             current_type |-> "object",
             suggested_type |-> "numeric",
             severity |-> "medium"]]

\* the cells of a numeric column with |z-score| > 3 against the column's own
\* mean and sample standard deviation (NaN cells skipped):
\*   |x - s/m| / sqrt(v / (m (m-1))) > 3  with  v = m q - s^2
OutlierCount(col) ==
    LET idx == NonNull(col.vals)
        m   == Cardinality(idx)
        x   == [i \in DOMAIN col.vals |-> IF i \in idx THEN col.vals[i].v ELSE 0]
        s   == SumRange(x, 1, Len(col.vals))
        q   == SumRange([i \in DOMAIN x |-> x[i] * x[i]], 1, Len(col.vals))
        v   == m * q - s * s
    IN  IF m >= 2 /\ v > 0   \* df[column].std() > 0
        THEN Cardinality({i \in idx :
                (m * col.vals[i].v - s) * (m * col.vals[i].v - s) * (m - 1)
                    > OutlierZ * OutlierZ * m * v})
        ELSE 0

\* an outliers issue whose severity steps up at 5 percent itself
OutlierIssueAtLeast(column, outlier_count, n) ==
    [type |-> "outliers",
     column |-> column,
     count |-> outlier_count,
     percentage |-> Ratio(outlier_count * 100, n),
     method |-> "z_score",
     threshold |-> OutlierZ,
     severity |-> IF outlier_count * 100 >= OutlierMediumPct * n THEN "medium" ELSE "low"]

\* _check_outliers
OutlierIssue(column, outlier_count, n) ==
    [type |-> "outliers",
     column |-> column,
     count |-> outlier_count,
     percentage |-> Ratio(outlier_count * 100, n),
     method |-> "z_score",
     threshold |-> OutlierZ,
     severity |-> IF outlier_count * 100 > OutlierMediumPct * n THEN "medium" ELSE "low"]

CheckOutliers(d) ==
    LET hit == Ascending({i \in DOMAIN d.cols :
                    d.cols[i].dtype = "float64" /\ OutlierCount(d.cols[i]) > 0})
    IN  [k \in DOMAIN hit |->
            OutlierIssue(d.cols[hit[k]].name, OutlierCount(d.cols[hit[k]]), d.n)]

\* a summary that lists 'all_columns' among the columns with issues
GenerateSummaryEveryColumn(d, issues) ==
    [total_rows |-> d.n,
     total_columns |-> Len(d.cols),
     total_issues |-> Len(issues),
     issue_types |-> {issues[i].type : i \in DOMAIN issues},
     columns_with_issues |-> {issues[i].column : i \in DOMAIN issues},
     severity_counts |->
        [high |-> Cardinality({i \in DOMAIN issues : issues[i].severity = "high"}),
         medium |-> Cardinality({i \in DOMAIN issues : issues[i].severity = "medium"}),
         low |-> Cardinality({i \in DOMAIN issues : issues[i].severity = "low"})]]

\* _generate_summary (the two list(set(...)) are kept as sets)
GenerateSummary(d, issues) ==
    [total_rows |-> d.n,
     total_columns |-> Len(d.cols),
     total_issues |-> Len(issues),
     issue_types |-> {issues[i].type : i \in DOMAIN issues},
     columns_with_issues |->
        {issues[i].column : i \in {j \in DOMAIN issues : issues[j].column # "all_columns"}},
     severity_counts |->
        [high |-> Cardinality({i \in DOMAIN issues : issues[i].severity = "high"}),
         medium |-> Cardinality({i \in DOMAIN issues : issues[i].severity = "medium"}),
         low |-> Cardinality({i \in DOMAIN issues : issues[i].severity = "low"})]]

\* lines 42-48: the result of validate
QualityResult(d, issues) ==
    [raised |-> FALSE,
     value |-> [issues |-> issues,
                summary |-> GenerateSummary(d, issues),
                total_issues |-> Len(issues)]]

\* a validate that runs the outlier rule first
QualityValidateOutliersFirst(d) ==
    IF DuplicatedRaises(d)
    THEN [raised |-> TRUE, error |-> "TypeError: unhashable type: 'list'"]
    ELSE QualityResult(d, CheckOutliers(d) \o CheckMissingValues(d)
                              \o CheckDuplicates(d) \o CheckDataTypes(d))

\* DataQualityValidator.validate: the result, or the exception it re-raises
QualityValidate(d) ==
    IF DuplicatedRaises(d)
    THEN [raised |-> TRUE, error |-> "TypeError: unhashable type: 'list'"]
    ELSE QualityResult(d, CheckMissingValues(d) \o CheckDuplicates(d)
                              \o CheckDataTypes(d) \o CheckOutliers(d))

----------------------------------------------------------------------------
(* Configuration: the platform's validation section and the per-call override *)

\* a key whose value is None (a YAML "key:" with nothing after it)
NoneVal == [none |-> TRUE]

\* Config._get_default_config()['validation']
DefaultValidationConfig ==
    [isolation_forest |-> [contamination |-> DefaultContamination,
                           random_state |-> DefaultRandomState],
     dbscan |-> [eps |-> DefaultEps, min_samples |-> DefaultMinSamples]]

\* the validation section the platform was configured with: the defaults, a
\* configuration file without the section, or one that sets a key of each
\* detector and leaves the other out
PlatformConfigs ==
    { DefaultValidationConfig,
      EmptyDict,
      [isolation_forest |-> [contamination |-> 5], dbscan |-> [min_samples |-> 3]] }

\* per-call overrides: none; a contamination the library rejects; a dbscan
\* section that is None; an eps the library rejects; every key overridden
ConfigOverrides ==
    { EmptyDict,
      [isolation_forest |-> [contamination |-> 70]],
      [dbscan |-> NoneVal],
      [dbscan |-> [eps |-> 0]],
      [isolation_forest |-> [contamination |-> 10, random_state |-> 7],
       dbscan |-> [eps |-> 3, min_samples |-> 2]] }

\* IsolationForest accepts a contamination in (0, 0.5]
ValidContamination(c) == c > 0 /\ c <= 50
\* DBSCAN accepts eps > 0 and min_samples >= 1
ValidDbscan(eps, min_samples) == eps > 0 /\ min_samples >= 1

----------------------------------------------------------------------------
(* The detector object: AnomalyDetector.__init__ *)

PcaNone == [set |-> FALSE, fitted |-> FALSE, n_components_ |-> 0]

NewDetector(config) ==
    [isolation_config |-> Get(config, "isolation_forest", EmptyDict),
     dbscan_config    |-> Get(config, "dbscan", EmptyDict),
     isolation_forest |-> "None",
     dbscan           |-> "None",
     scaler           |-> "unfitted",
     pca              |-> PcaNone]

\* an except branch that answers with an empty array
FailSoftEmpty(data) ==
    [flags |-> <<>>, count |-> 0, details |-> EmptyDict]

\* the except branch of both detectors
FailSoft(data) ==
    [flags |-> [i \in 1..data.n |-> FALSE], count |-> 0, details |-> EmptyDict]

CountTrue(flags) == Cardinality({i \in DOMAIN flags : flags[i]})

\* lines 112-113: the contamination of the call: the override's, else the
\* platform's, else the default
IsolationContamination(config, det) ==
    Get(Get(config, "isolation_forest", EmptyDict), "contamination",
        Get(det.isolation_config, "contamination", DefaultContamination))

\* lines 114-115: the seed of the call, looked up the same way
IsolationRandomState(config, det) ==
    Get(Get(config, "isolation_forest", EmptyDict), "random_state",
        Get(det.isolation_config, "random_state", DefaultRandomState))

\* an estimator that is seeded one further once the detector holds an
\* estimator of an earlier call
EstimatorSeedReseeded(random_state, det) ==
    IF det.isolation_forest = "None" THEN random_state ELSE random_state + 1

\* line 123: random_state=random_state, on an estimator built anew
EstimatorSeed(random_state, det) == random_state

\* lines 118-128: what fit_predict is run on. The matrix is standardised by a
\* scaler fitted on that same matrix (fit_transform), so it is known by the
\* matrix; the estimator is known by its two parameters.
ForestFit(data, config, det) ==
    [X |-> data,
     contamination |-> IsolationContamination(config, det),
     random_state |-> EstimatorSeed(IsolationRandomState(config, det), det)]

\* _isolation_forest_detection: pred is the set of rows fit_predict labels -1.
\* The score statistics of the details (library floats) are left out.
IsolationForestDetection(data, config, det, pred) ==
    LET section == Get(config, "isolation_forest", EmptyDict)
        lookupOk == section # NoneVal /\ det.isolation_config # NoneVal
        contamination == IsolationContamination(config, det)
        built == [det EXCEPT !.scaler = "fitted", !.isolation_forest = "IsolationForest"]
        anomaly_flags == [i \in 1..data.n |-> i \in pred]
    IN  IF ~lookupOk
        THEN [det |-> det, failed |-> TRUE, result |-> FailSoft(data)]
        ELSE IF ~ValidContamination(contamination)
        THEN [det |-> built, failed |-> TRUE, result |-> FailSoft(data)]
        ELSE [det |-> built, failed |-> FALSE,
              result |-> [flags |-> anomaly_flags,
                          count |-> CountTrue(anomaly_flags),
                          details |-> [contamination |-> contamination]]]

\* line 152: the eps of the call: the override's, else the platform's, else
\* the default
DbscanEps(config, det) ==
    Get(Get(config, "dbscan", EmptyDict), "eps", Get(det.dbscan_config, "eps", DefaultEps))

\* a lookup that goes from an override with a dbscan section straight to the
\* default
DbscanMinSamplesSectionOnly(config, det) ==
    IF "dbscan" \in DOMAIN config
    THEN Get(config.dbscan, "min_samples", DefaultMinSamples)
    ELSE Get(det.dbscan_config, "min_samples", DefaultMinSamples)

\* lines 153-154: the min_samples of the call, looked up the same way
DbscanMinSamples(config, det) ==
    Get(Get(config, "dbscan", EmptyDict), "min_samples",
        Get(det.dbscan_config, "min_samples", DefaultMinSamples))

\* _dbscan_detection: noise is the set of rows fit_predict labels -1.
\* n_clusters and cluster_sizes (library values) are left out of the details.
DbscanDetection(data, config, det, noise) ==
    LET section == Get(config, "dbscan", EmptyDict)
        lookupOk == section # NoneVal /\ det.dbscan_config # NoneVal
        eps == DbscanEps(config, det)
        min_samples == DbscanMinSamples(config, det)
        ncols == Len(data.cols)
        scaled == [det EXCEPT !.scaler = "fitted"]
        usesPca == ncols > PCAThreshold
        n_components == Min(PCAComponents, ncols)
        \* PCA.fit_transform raises unless n_components <= min(rows, columns)
        pcaOk == n_components <= Min(data.n, ncols)
        afterPca ==
            IF usesPca
            THEN [scaled EXCEPT !.pca = [set |-> TRUE, fitted |-> pcaOk,
                                         n_components_ |-> IF pcaOk THEN n_components ELSE 0]]
            ELSE scaled
        clustered == [afterPca EXCEPT !.dbscan = "DBSCAN"]
        anomaly_flags == [i \in 1..data.n |-> i \in noise]
    IN  IF ~lookupOk
        THEN [det |-> det, failed |-> TRUE, result |-> FailSoft(data)]
        ELSE IF usesPca /\ ~pcaOk
        THEN [det |-> afterPca, failed |-> TRUE, result |-> FailSoft(data)]
        ELSE IF ~ValidDbscan(eps, min_samples)
        THEN [det |-> clustered, failed |-> TRUE, result |-> FailSoft(data)]
        \* self.pca.n_components_ if self.pca else data.shape[1]: an unfitted
        \* PCA object has no n_components_
        ELSE IF clustered.pca.set /\ ~clustered.pca.fitted
        THEN [det |-> clustered, failed |-> TRUE, result |-> FailSoft(data)]
        ELSE [det |-> clustered, failed |-> FALSE,
              result |-> [flags |-> anomaly_flags,
                          count |-> CountTrue(anomaly_flags),
                          details |-> [eps |-> eps,
                                       min_samples |-> min_samples,
                                       noise_points |-> CountTrue(anomaly_flags),
                                       pca_components |->
                                          IF clustered.pca.set
                                          THEN clustered.pca.n_components_
                                          ELSE ncols]]]

----------------------------------------------------------------------------
(* AnomalyDetector.detect_anomalies *)

\* anomaly_flags[column] = array: pandas raises ValueError unless the array
\* has one entry per row of the frame's index
AssignOk(d, flags) == Len(flags) = d.n

\* a flag table whose combined column asks for both detectors to agree
FlagTableBoth(d, if_flags, dbscan_flags) ==
    [i \in 1..d.n |->
        [isolation_forest_anomaly |-> if_flags[i],
         dbscan_anomaly |-> dbscan_flags[i],
         combined_anomaly |-> if_flags[i] /\ dbscan_flags[i]]]

\* a flag table that lays the verdicts out in reverse row order
FlagTableReversed(d, if_flags, dbscan_flags) ==
    [i \in 1..d.n |->
        [isolation_forest_anomaly |-> if_flags[d.n + 1 - i],
         dbscan_anomaly |-> dbscan_flags[d.n + 1 - i],
         combined_anomaly |-> if_flags[d.n + 1 - i] \/ dbscan_flags[d.n + 1 - i]]]

\* the three flag columns, row by row, on the index of df
FlagTable(d, if_flags, dbscan_flags) ==
    [i \in 1..d.n |->
        [isolation_forest_anomaly |-> if_flags[i],
         dbscan_anomaly |-> dbscan_flags[i],
         combined_anomaly |-> if_flags[i] \/ dbscan_flags[i]]]

\* an empty pd.DataFrame()
EmptyTable == <<>>

\* lines 62-86: the flag table, the summary and the result, from the two
\* detectors' results
CombineResults(d, numeric_data, if_results, dbscan_results) ==
    LET anomaly_flags ==
            FlagTable(d, if_results.result.flags, dbscan_results.result.flags)
        total_anomalies ==
            Cardinality({i \in DOMAIN anomaly_flags : anomaly_flags[i].combined_anomaly})
    IN  IF ~AssignOk(d, if_results.result.flags) \/ ~AssignOk(d, dbscan_results.result.flags)
        THEN [raised |-> TRUE, det |-> dbscan_results.det,
              if_failed |-> if_results.failed, dbscan_failed |-> dbscan_results.failed,
              error |-> "ValueError: Length of values does not match length of index"]
        ELSE [raised |-> FALSE, det |-> dbscan_results.det,
              if_failed |-> if_results.failed, dbscan_failed |-> dbscan_results.failed,
              value |->
                [anomaly_counts |-> [isolation_forest |-> if_results.result.count,
                                     dbscan |-> dbscan_results.result.count],
                 anomaly_flags |-> anomaly_flags,
                 model_details |-> [isolation_forest |-> if_results.result.details,
                                    dbscan |-> dbscan_results.result.details],
                 summary |->
                    [total_rows |-> d.n,
                     total_anomalies |-> total_anomalies,
                     anomaly_rate |-> IF d.n > 0 THEN Ratio(total_anomalies, d.n)
                                      ELSE Ratio(0, 1),
                     methods_used |-> <<"isolation_forest", "dbscan">>,
                     numeric_columns_analyzed |->
                        [c \in DOMAIN numeric_data.cols |-> numeric_data.cols[c].name]]]]

\* lines 57-60: the second detector runs on the detector object the first left
RunDbscan(d, config, numeric_data, if_results, noise) ==
    CombineResults(d, numeric_data, if_results,
                   DbscanDetection(numeric_data, config, if_results.det, noise))

\* lines 37-86: detect_anomalies once the numeric matrix is prepared
DetectOn(d, config, det, pred, noise, numeric_data) ==
    IF IsEmpty(numeric_data)
    THEN [raised |-> FALSE, det |-> det, if_failed |-> FALSE, dbscan_failed |-> FALSE,
          value |-> [anomaly_counts |-> [isolation_forest |-> 0, dbscan |-> 0],
                     anomaly_flags |-> EmptyTable,
                     summary |-> "No numeric data available for analysis"]]
    ELSE RunDbscan(d, config, numeric_data,
                   IsolationForestDetection(numeric_data, config, det, pred), noise)

\* detect_anomalies: len(df) of something that is no frame raises at once
DetectAnomalies(d, config, det, pred, noise) ==
    IF ~d.frame
    THEN [raised |-> TRUE, det |-> det, if_failed |-> FALSE, dbscan_failed |-> FALSE,
          error |-> "TypeError: object of type 'NoneType' has no len()"]
    ELSE DetectOn(d, config, det, pred, noise, PrepareNumericData(d))

----------------------------------------------------------------------------
(* DataReliabilityPlatform.validate_data *)

ValidationError(cause) == [kind |-> "ValidationError", cause |-> cause]

\* len(anomaly_counts) in the place of the sum of its values
SumCountsLen(anomaly_counts) == Cardinality(DOMAIN anomaly_counts)

\* sum(anomaly_counts.values())
SumCounts(anomaly_counts) == SumOver(anomaly_counts, DOMAIN anomaly_counts)

\* a validation_passed that tolerates a single quality issue
ValidationPassedTolerant(total_anomalies, total_quality_issues) ==
    total_anomalies = 0 /\ total_quality_issues <= 1

\* validation_passed of the summary
ValidationPassed(total_anomalies, total_quality_issues) ==
    total_anomalies = 0 /\ total_quality_issues = 0

\* lines 118-127: the summary of the report
Summary(d, anomaly_results, quality_results) ==
    LET total_anomalies == SumCounts(Get(anomaly_results, "anomaly_counts", EmptyDict))
        total_quality_issues == Len(Get(quality_results, "issues", <<>>))
    IN  [total_rows |-> d.n,
         total_anomalies |-> total_anomalies,
         total_quality_issues |-> total_quality_issues,
         anomaly_rate |-> IF d.n > 0 THEN Ratio(total_anomalies, d.n) ELSE Ratio(0, 1),
         validation_passed |-> ValidationPassed(total_anomalies, total_quality_issues)]

\* a validate_data that returns what the anomaly branch found when the quality
\* branch raises
AssembleReportPartial(d, anomaly_results, quality_results) ==
    [det |-> anomaly_results.det,
     if_failed |-> anomaly_results.if_failed,
     dbscan_failed |-> anomaly_results.dbscan_failed,
     out |-> IF anomaly_results.raised THEN ValidationError(anomaly_results.error)
             ELSE IF quality_results.raised
             THEN [kind |-> "report",
                   anomalies |-> anomaly_results.value,
                   quality_issues |-> EmptyDict,
                   summary |-> EmptyDict]
             ELSE [kind |-> "report",
                   anomalies |-> anomaly_results.value,
                   quality_issues |-> quality_results.value,
                   summary |-> Summary(d, anomaly_results.value, quality_results.value)]]

\* lines 103-134: both branches ran (the quality branch only if the anomaly
\* branch returned); an exception of either becomes the ValidationError
AssembleReport(d, anomaly_results, quality_results) ==
    [det |-> anomaly_results.det,
     if_failed |-> anomaly_results.if_failed,
     dbscan_failed |-> anomaly_results.dbscan_failed,
     out |-> IF anomaly_results.raised THEN ValidationError(anomaly_results.error)
             ELSE IF quality_results.raised THEN ValidationError(quality_results.error)
             ELSE [kind |-> "report",
                   anomalies |-> anomaly_results.value,
                   quality_issues |-> quality_results.value,
                   summary |-> Summary(d, anomaly_results.value, quality_results.value)]]

ValidateData(d, config, det, pred, noise) ==
    AssembleReport(d, DetectAnomalies(d, config, det, pred, noise), QualityValidate(d))

----------------------------------------------------------------------------
(* The engine as a state machine: one platform object, one caller *)

vars == <<isolation_config, dbscan_config, scaler, isolation_forest, dbscan, pca,
          pc, df, validation_config, lib, outcome,
          run, started, succeeded, results, audit_log, catalog, disk, clock, branches,
          forest_fits, calls>>

\* the fields of the detector object
detectorVars == <<isolation_config, dbscan_config, scaler, isolation_forest, dbscan, pca>>

\* what only full_pipeline touches
pipelineVars == <<run, started, succeeded, results, audit_log, catalog, disk, clock>>

\* the detector object the variables hold
Det ==
    [isolation_config |-> isolation_config, dbscan_config |-> dbscan_config,
     isolation_forest |-> isolation_forest, dbscan |-> dbscan,
     scaler |-> scaler, pca |-> pca]

SetDet(det) ==
    /\ isolation_config' = det.isolation_config
    /\ dbscan_config' = det.dbscan_config
    /\ isolation_forest' = det.isolation_forest
    /\ dbscan' = det.dbscan
    /\ scaler' = det.scaler
    /\ pca' = det.pca

\* nothing held: no call in progress
NoValue == [none |-> TRUE]

\* a JSON file on disk: absent, holding a JSON document, or cut short by a
\* json.dump that raised after open(..., 'w') had truncated the file
AbsentFile == [state |-> "absent", content |-> <<>>]
JsonFile(content) == [state |-> "json", content |-> content]
TruncatedFile == [state |-> "truncated", content |-> <<>>]

\* the rows the library may label -1 in a matrix of n rows
LibLabels(n) == SUBSET (1..Min(n, MaxFlagRow))

\* DataReliabilityPlatform.__init__ / _init_components
Init ==
    /\ \E config \in PlatformConfigs : 
          /\ isolation_config = NewDetector(config).isolation_config
          /\ dbscan_config = NewDetector(config).dbscan_config
    /\ isolation_forest = "None"
    /\ dbscan = "None"
    /\ scaler = "unfitted"
    /\ pca = PcaNone
    /\ pc = "idle"
    /\ df = NoValue
    /\ validation_config = NoValue
    /\ lib = NoValue
    /\ outcome = NoValue
    /\ run = NoValue
    /\ started = <<>>
    /\ succeeded = <<>>
    /\ results = NoValue
    /\ audit_log = AbsentFile
    /\ catalog = AbsentFile
    /\ disk = EmptyDict
    /\ clock = 0
    /\ branches = NoValue
    /\ forest_fits = EmptyDict
    /\ calls = NoValue

\* did the detectors reach the library: a frame with a non-empty matrix
DetectorsRun(d) == d.frame /\ ~IsEmpty(PrepareNumericData(d))

\* the local variables the two detectors looked up (lines 112-115, 152-154),
\* for each detector that was entered and whose lookups did not raise
DetectorLocals(d, config, det) ==
    IF ~DetectorsRun(d) THEN NoValue
    ELSE [isolation_forest |->
              IF Get(config, "isolation_forest", EmptyDict) = NoneVal THEN NoValue
              ELSE [contamination |-> IsolationContamination(config, det),
                    random_state |-> IsolationRandomState(config, det)],
          dbscan |->
              IF Get(config, "dbscan", EmptyDict) = NoneVal THEN NoValue
              ELSE [eps |-> DbscanEps(config, det),
                    min_samples |-> DbscanMinSamples(config, det)]]

\* validate_data has returned or raised: r is what it computed. The labels of
\* a library call that was not made, or whose answer was dropped, are empty.
Return(d, config, pred, noise, r) ==
    /\ (~DetectorsRun(d) \/ r.if_failed) => pred = {}
    /\ (~DetectorsRun(d) \/ r.dbscan_failed) => noise = {}
    /\ SetDet(r.det)
    /\ df' = d
    /\ validation_config' = config
    /\ lib' = [pred |-> pred, noise |-> noise,
               if_failed |-> r.if_failed, dbscan_failed |-> r.dbscan_failed]
    /\ outcome' = r.out
    /\ calls' = DetectorLocals(d, config, Det)
    /\ pc' = "returned"
    /\ UNCHANGED <<pipelineVars, branches, forest_fits>>

\* a caller runs validate_data(df, validation_config) to its return or raise
ValidateDataCall ==
    /\ pc = "idle"
    /\ \E d \in Datasets, config \in ConfigOverrides :
       \E pred \in LibLabels(d.n), noise \in LibLabels(d.n) :
          Return(d, config, pred, noise, ValidateData(d, config, Det, pred, noise))

\* the caller has consumed the report (or the error); the call's entities are gone
Consume ==
    /\ pc = "returned"
    /\ pc' = "idle"
    /\ df' = NoValue
    /\ validation_config' = NoValue
    /\ lib' = NoValue
    /\ outcome' = NoValue
    /\ calls' = NoValue
    /\ UNCHANGED <<isolation_config, dbscan_config, scaler, isolation_forest, dbscan, pca>>
    /\ UNCHANGED <<pipelineVars, branches, forest_fits>>

Next == ValidateDataCall \/ Consume

Spec == Init /\ [][Next]_vars

----------------------------------------------------------------------------
(* The isolation-forest detector called on its own, again and again. An     *)
(* IsolationForest built with an integer random_state is deterministic:     *)
(* fitted on the same standardised matrix with the same contamination and   *)
(* the same seed it labels the same rows. forest_fits holds, for each such  *)
(* fit made so far, the labels of the first time and how often it was made. *)

\* fits of the library in one behaviour
MaxFits == 2

\* the matrices the detector is called on come from these datasets: one
\* varying numeric column, and two
ForestDatasets ==
    {Frame(MaxRows, [c \in 1..k |->
                       [dtype |-> "float64",
                        vals |-> [i \in 1..MaxRows |-> Num((i + c) % 2)]]])
        : k \in 1..2}

TotalFits == SumOver([k \in DOMAIN forest_fits |-> forest_fits[k].fits], DOMAIN forest_fits)

\* _isolation_forest_detection has returned r; fit is what the library was
\* run on, if it was run
ForestReturn(d, config, pred, fit, r) ==
    /\ r.failed => pred = {}
    /\ (~r.failed /\ fit \in DOMAIN forest_fits) => pred = forest_fits[fit].labels
    /\ forest_fits' =
          IF r.failed THEN forest_fits
          ELSE (fit :> [labels |-> pred,
                        fits |-> Get(forest_fits, fit, [fits |-> 0]).fits + 1])
                   @@ forest_fits
    /\ SetDet(r.det)
    /\ df' = d
    /\ validation_config' = config
    /\ lib' = [pred |-> pred, noise |-> {}, if_failed |-> r.failed, dbscan_failed |-> FALSE]
    /\ outcome' = [kind |-> "detector_result",
                   flags |-> r.result.flags,
                   count |-> r.result.count,
                   details |-> r.result.details]
    /\ pc' = "returned"
    /\ UNCHANGED <<pipelineVars, branches, calls>>

ForestOn(d, config, pred, data) ==
    ForestReturn(d, config, pred, ForestFit(data, config, Det),
                 IsolationForestDetection(data, config, Det, pred))

\* detect_anomalies line 53: self._isolation_forest_detection(numeric_data, config)
ForestCall ==
    /\ pc = "idle"
    /\ TotalFits < MaxFits
    /\ \E d \in ForestDatasets, config \in ConfigOverrides :
       \E pred \in LibLabels(d.n) :
          ForestOn(d, config, pred, PrepareNumericData(d))

ForestNext == ForestCall \/ Consume

ForestSpec == Init /\ [][ForestNext]_vars

----------------------------------------------------------------------------
(* The quality validator called on its own, on datasets that reach every    *)
(* branch of its four rules.                                                *)

\* a column of n rows whose first k cells are the special ones
RuleColumn(shape, n, k) ==
    CASE shape = "gaps" ->          \* missing cells, then a constant
            [dtype |-> "float64",
             vals |-> [i \in 1..n |-> IF i <= k THEN Null ELSE Num(0)]]
      [] shape = "spike" ->         \* ones among zeros
            [dtype |-> "float64",
             vals |-> [i \in 1..n |-> IF i <= k THEN Num(1) ELSE Num(0)]]
      [] shape = "ids" ->           \* k repeats of the first cell, the rest distinct
            [dtype |-> "float64",
             vals |-> [i \in 1..n |-> IF i <= k + 1 THEN Num(1) ELSE Num(i)]]
      [] shape = "text_numbers" ->  \* missing cells, then numbers as text
            [dtype |-> "object",
             vals |-> [i \in 1..n |-> IF i <= k THEN Null ELSE Str("12")]]
      [] shape = "text_mixed" ->    \* words, then numbers as text
            [dtype |-> "object",
             vals |-> [i \in 1..n |-> IF i <= k THEN Str("abc") ELSE Str("7")]]
      [] shape = "text_lists" ->    \* unhashable cells, then words
            [dtype |-> "object",
             vals |-> [i \in 1..n |-> IF i <= k THEN ListCell ELSE Str("abc")]]

\* the column shapes of a dataset of n rows (distinct numbers are kept small)
RuleShapes(n) ==
    {"gaps", "spike", "text_numbers", "text_mixed", "text_lists"}
        \cup (IF n <= 20 THEN {"ids"} ELSE {})

\* row counts and special-cell counts on both sides of the 50, 10 and 5
\* percent thresholds and of the |z| > 3 threshold
RuleRows == {0, 1, MaxRows, 10, 11, 20, 100}
RuleCounts(n) == {k \in {0, 1, 2, 4, 5, 6, 60} : k <= n}

\* datasets of one or two columns of these shapes, and datasets of six
\* columns on which every rule finds something in two columns
QualityFrames ==
    UNION {UNION {
        {Frame(n, [c \in 1..Len(shapes) |-> RuleColumn(shapes[c], n, k)])
            : shapes \in [1..1 -> RuleShapes(n)] \cup [1..2 -> RuleShapes(n)]
                \cup {<<"gaps", "text_numbers", "spike", "gaps", "text_numbers", "spike">>}}
        : k \in RuleCounts(n)} : n \in RuleRows}

\* validate has returned its result or re-raised (lines 51, 55)
QualityReturn(d, r) ==
    /\ df' = d
    /\ outcome' = IF r.raised THEN [kind |-> "raised", cause |-> r.error]
                  ELSE [kind |-> "quality_result",
                        issues |-> r.value.issues,
                        summary |-> r.value.summary,
                        total_issues |-> r.value.total_issues]
    /\ pc' = "returned"
    /\ UNCHANGED <<detectorVars, validation_config, lib, pipelineVars, branches, forest_fits, calls>>

\* a caller runs DataQualityValidator.validate(df)
QualityCall ==
    /\ pc = "idle"
    /\ \E d \in QualityFrames : QualityReturn(d, QualityValidate(d))

QualityNext == QualityCall \/ Consume

QualitySpec == Init /\ [][QualityNext]_vars

----------------------------------------------------------------------------
(* AnomalyDetector.explain_anomalies called on its own. anomaly_flags is    *)
(* the set of the rows whose flag is True, top_n is a count (0 or more);    *)
(* the rows of the frame are labelled 0, 1, ... (a RangeIndex). A standard  *)
(* deviation and a z-score are held as their squares.                       *)

\* a head that lets every flagged row through
AnomalousRowsNoHead(anomaly_flags, top_n) == anomaly_flags

\* line 203: df[anomaly_flags].head(top_n), as the rows it keeps
AnomalousRows(anomaly_flags, top_n) ==
    {i \in anomaly_flags : Cardinality({j \in anomaly_flags : j < i}) < top_n}

\* a reference population that is the whole dataset
NormalRowsWholeFrame(d, anomaly_flags) == 1..d.n

\* line 204: df[~anomaly_flags]
NormalRows(d, anomaly_flags) == (1..d.n) \ anomaly_flags

\* a severity that is high from a z-score of 3 on
ReasonSeverityFromThree(z2) == IF z2.num >= 9 * z2.den THEN "high" ELSE "medium"

\* line 229: 'high' if z_score > 3 else 'medium', on the squared z-score
ReasonSeverity(z2) == IF z2.num > 9 * z2.den THEN "high" ELSE "medium"

\* lines 215-230: what column col adds to the reasons of the flagged row i,
\* none or one reason. mean() and std() skip NaN; std() is the sample
\* standard deviation, NaN for fewer than two values; no comparison with NaN
\* holds
ColumnReason(col, i, normal_rows) ==
    LET idx   == {j \in normal_rows : ~IsNull(col.vals[j])}
        m     == Cardinality(idx)
        x     == [j \in DOMAIN col.vals |-> IF j \in idx THEN col.vals[j].v ELSE 0]
        s     == SumRange(x, 1, Len(x))
        q     == SumRange([j \in DOMAIN x |-> x[j] * x[j]], 1, Len(x))
        value == col.vals[i]
        z2    == Ratio((m * value.v - s) * (m * value.v - s) * (m - 1),
                       m * (m * q - s * s))
    IN  IF /\ m >= 2
           /\ m * q - s * s > 0
           /\ ~IsNull(value)
           /\ z2.num > 4 * z2.den
        THEN <<[column |-> col.name,
                value |-> value.v,
                normal_mean |-> Ratio(s, m),
                normal_std |-> [sqrt_of |-> Ratio(m * q - s * s, m * (m - 1))],
                z_score |-> [sqrt_of |-> z2],
                severity |-> ReasonSeverity(z2)]>>
        ELSE <<>>

\* lines 202-240; on something that is no DataFrame the except branch answers
ExplainAnomalies(d, anomaly_flags, top_n) ==
    IF ~d.frame THEN [anomaly_explanations |-> <<>>, summary |-> EmptyDict]
    ELSE
    LET anomalous_rows == Ascending(AnomalousRows(anomaly_flags, top_n))
        normal_rows    == NormalRows(d, anomaly_flags)
        numeric        == NumericColumns(d)
        explanations   ==
            [k \in DOMAIN anomalous_rows |->
                LET r      == [c \in DOMAIN numeric |->
                                 ColumnReason(numeric[c], anomalous_rows[k], normal_rows)]
                    listed == {c \in DOMAIN numeric : r[c] # <<>>}
                IN  [row_index |-> anomalous_rows[k] - 1,
                     anomaly_reasons |->
                         [j \in 1..Cardinality(listed) |-> r[Ascending(listed)[j]][1]]]]
    IN  [anomaly_explanations |-> explanations,
         summary |-> [total_anomalies_explained |-> Len(explanations),
                      columns_analyzed |-> [c \in DOMAIN numeric |-> numeric[c].name]]]

\* the datasets explained: a first numeric column 0, 2, 4 and then cells
\* two to three and a half standard deviations of 0, 2, 4 from their mean, or
\* missing; beside it nothing, a constant column, a text column, or a numeric
\* column with two values only; and a longer column 1, 3, 1, 3, ... that ends
\* in a value far enough to stand out of the whole column too
ExplainFrames ==
    LET n     == MaxRows + 3
        tails == [1..MaxRows -> {Null, Num(6), Num(7), Num(8), Num(9)}]
        first(rows, tail) == [dtype |-> "float64",
                              vals |-> [i \in 1..rows |->
                                          IF i <= 3 THEN Num(2 * (i - 1)) ELSE tail[i - 3]]]
        second == {[dtype |-> "float64", vals |-> [i \in 1..n |-> Num(1)]],
                   [dtype |-> "object", vals |-> [i \in 1..n |-> Str("abc")]],
                   [dtype |-> "float64",
                    vals |-> [i \in 1..n |-> IF i <= 2 THEN Num(i) ELSE Null]]}
        spike == [dtype |-> "float64",
                  vals |-> [i \in 1..(n + 2) |->
                              IF i = n + 2 THEN Num(12) ELSE Num(1 + 2 * ((i + 1) % 2))]]
    IN  {Frame(rows, <<first(rows, <<>>)>>) : rows \in 0..1}
          \cup {Frame(n + 2, <<spike>>)}
          \cup {Frame(n, <<first(n, tail)>>) : tail \in tails}
          \cup {Frame(n, <<first(n, tail), b>>) : tail \in tails, b \in second}

\* a caller runs explain_anomalies(df, anomaly_flags, top_n) to its return;
\* 10 is the default top_n
ExplainCall ==
    /\ pc = "idle"
    /\ \E d \in ExplainFrames \cup {NotAFrame}, top_n \in {0, 1, MaxRows, 10} :
       \E anomaly_flags \in SUBSET (1..d.n) :
          /\ df' = d
          /\ calls' = [anomaly_flags |-> anomaly_flags, top_n |-> top_n]
          /\ outcome' = [kind |-> "explanations",
                         value |-> ExplainAnomalies(d, anomaly_flags, top_n)]
          /\ pc' = "returned"
          /\ UNCHANGED <<detectorVars, validation_config, lib, pipelineVars,
                         branches, forest_fits>>

ExplainNext == ExplainCall \/ Consume

ExplainSpec == Init /\ [][ExplainNext]_vars

----------------------------------------------------------------------------
(* full_pipeline and what it calls: ingestion, versioning, the audit log,   *)
(* the metadata catalog. Excel sources are outside the model.               *)

\* full_pipeline runs in one behaviour
MaxRuns == 2

Raised(error) == [raised |-> TRUE, error |-> error]
Returned(value) == [raised |-> FALSE, value |-> value]

PlatformError(cause) == [kind |-> "PlatformError", cause |-> cause]

\* a digest is known by what was digested
Sha256(x) == [sha256 |-> x]
Sha1(x) == [sha1 |-> x]

\* a Python value with its type, where json.dump tells the types apart
PyVal(type, v) == [type |-> type, v |-> v]

RECURSIVE JsonSerializable(_)
\* does json.dump accept the value: numpy.float64 is a float, numpy.bool_ and
\* numpy.int64 are neither bool nor int
JsonSerializable(x) ==
    IF x.type = "dict"
    THEN \A k \in DOMAIN x.v : JsonSerializable(x.v[k])
    ELSE x.type \notin {"numpy.bool_", "numpy.int64"}

RECURSIVE JsonEncode(_)
\* the value json.load reads back from what json.dump wrote
JsonEncode(x) ==
    IF x.type = "dict"
    THEN PyVal("dict", [k \in DOMAIN x.v |-> JsonEncode(x.v[k])])
    ELSE IF x.type = "numpy.float64" THEN PyVal("float", x.v)
    ELSE x

SourceFile(path, suffix, exists, content) ==
    [path |-> path, suffix |-> suffix, exists |-> exists, content |-> content]

OneColumn(n, dtype, vals) == Frame(n, <<[dtype |-> dtype, vals |-> vals]>>)

\* the source files a run may be pointed at: what the file reads as
SourceFiles ==
    { SourceFile("metrics.json", ".json", TRUE,
                 OneColumn(MaxRows, "float64", [i \in 1..MaxRows |-> Num(i % 2)])),
      SourceFile("sales.csv", ".csv", TRUE,
                 OneColumn(MaxRows, "float64", [i \in 1..MaxRows |-> Num(i % 2)])),
      SourceFile("constant.csv", ".csv", TRUE,
                 OneColumn(MaxRows, "float64", [i \in 1..MaxRows |-> Num(1)])),
      SourceFile("header_only.csv", ".csv", TRUE, OneColumn(0, "object", <<>>)),
      SourceFile("sparse.json", ".json", TRUE,
                 OneColumn(MaxRows, "float64",
                           [i \in 1..MaxRows |-> IF i = 1 THEN Null ELSE Num(1)])),
      SourceFile("labels.json", ".json", TRUE,
                 OneColumn(MaxRows, "object",
                           [i \in 1..MaxRows |-> IF i = 1 THEN Str("7") ELSE Str("abc")])),
      SourceFile("gaps.json", ".json", TRUE,
                 OneColumn(MaxRows, "object",
                           [i \in 1..MaxRows |-> IF i = 1 THEN Null ELSE Str("12")])),
      SourceFile("nested.json", ".json", TRUE,
                 OneColumn(MaxRows, "object", [i \in 1..MaxRows |-> ListCell])),
      SourceFile("ragged.json", ".json", TRUE,
                 OneColumn(MaxRows, "object",
                           [i \in 1..MaxRows |-> IF i = 1 THEN ListCell ELSE Str("abc")])),
      SourceFile("absent.csv", ".csv", FALSE, NoValue),
      SourceFile("notes.txt", ".txt", TRUE, NoValue) }

\* the output paths of a run, and whether the directory is there
OutputPaths ==
    { [path |-> "processed/a.parquet", dir_exists |-> TRUE],
      [path |-> "processed/b.parquet", dir_exists |-> TRUE],
      [path |-> "missing/c.parquet", dir_exists |-> FALSE] }

\* the keyword arguments of a run
PipelineKwargs ==
    { EmptyDict,
      [branch |-> "dev"],
      [validation_config |-> [isolation_forest |-> [contamination |-> 70],
                              dbscan |-> [eps |-> 0]]] }

\* _detect_source_type
DetectSourceType(suffix) ==
    IF suffix = ".csv" THEN Returned("csv")
    ELSE IF suffix = ".json" THEN Returned("json")
    ELSE Raised("IngestionError: Unsupported file type")

\* DataFrame.to_parquet: a column that mixes lists and text has no Arrow type
ToParquetRaises(d) ==
    \E c \in DOMAIN d.cols :
        /\ \E i \in 1..d.n : d.cols[c].vals[i].k = "list"
        /\ \E i \in 1..d.n : d.cols[c].vals[i].k = "str"

\* the result dictionary of an ingestion
IngestResult(source) ==
    [source_file |-> source.path,
     dataframe |-> source.content,
     rows |-> source.content.n,
     columns |-> Len(source.content.cols)]

\* CSVIngestion.ingest: the keyword arguments go to pd.read_csv
CsvIngest(source, kwargs) ==
    IF ~source.exists THEN Raised("IngestionError: file not found")
    ELSE IF kwargs # EmptyDict
    THEN Raised("IngestionError: read_csv() got an unexpected keyword argument")
    ELSE IF IsEmpty(source.content) THEN Raised("IngestionError: empty")
    ELSE IF ToParquetRaises(source.content) THEN Raised("IngestionError: ArrowInvalid")
    ELSE Returned(IngestResult(source))

\* JSONIngestion.ingest: the keyword arguments are not used
JsonIngest(source, kwargs) ==
    IF ~source.exists THEN Raised("IngestionError: file not found")
    ELSE IF IsEmpty(source.content) THEN Raised("IngestionError: empty")
    ELSE IF ToParquetRaises(source.content) THEN Raised("IngestionError: ArrowInvalid")
    ELSE Returned(IngestResult(source))

\* ingest_data with source_type 'auto'
IngestData(source, kwargs) ==
    LET source_type == DetectSourceType(source.suffix)
    IN  IF source_type.raised THEN source_type
        ELSE IF source_type.value = "csv" THEN CsvIngest(source, kwargs)
        ELSE JsonIngest(source, kwargs)

\* config or {}
OrEmpty(config) == IF config = NoneVal THEN EmptyDict ELSE config

\* np.sum gives the counts of a detector that did not fail as numpy.int64,
\* the except branch gives the int 0: is the sum of the counts a numpy.int64
NumpyTotal(report) ==
    /\ "model_details" \in DOMAIN report.anomalies
    /\ \E m \in DOMAIN report.anomalies.model_details :
          report.anomalies.model_details[m] # EmptyDict

\* the summary of a report with the Python types of its values:
\* numpy.int64 == 0 is a numpy.bool_, and "a and b" is a when a is false
TypedSummary(summary, numpy) ==
    [total_rows |-> PyVal("int", summary.total_rows),
     total_anomalies |->
        PyVal(IF numpy THEN "numpy.int64" ELSE "int", summary.total_anomalies),
     total_quality_issues |-> PyVal("int", summary.total_quality_issues),
     anomaly_rate |->
        PyVal(IF numpy THEN "numpy.float64" ELSE "float", summary.anomaly_rate),
     validation_passed |->
        PyVal(IF numpy /\ summary.total_anomalies # 0 THEN "numpy.bool_" ELSE "bool",
              summary.validation_passed)]

\* lines 216-220: the processed frame, df with the flag columns beside it
Processed(d, validation_result) ==
    [df |-> d,
     anomaly_flags |->
        IF "anomalies" \in DOMAIN validation_result
           /\ "anomaly_flags" \in DOMAIN validation_result.anomalies
        THEN validation_result.anomalies.anomaly_flags
        ELSE EmptyTable]

\* processed_df.to_parquet(output_path); what the file holds is known by the
\* run that wrote it
ToParquet(processed, output) ==
    IF ~output.dir_exists
    THEN Raised("OSError: Cannot save file into a non-existent directory")
    ELSE IF ToParquetRaises(processed.df) THEN Raised("ArrowInvalid")
    ELSE Returned(processed)

\* VersionManager.commit_data, as version_data wraps it
CommitData(data_path, message, branch) ==
    IF data_path \notin DOMAIN disk
    THEN Raised("Versioning failed: VersioningError")
    ELSE Returned([commit_id |-> Sha1(<<data_path, message, clock>>),
                   branch |-> branch,
                   message |-> message,
                   timestamp |-> clock,
                   repository |-> "veritrace-repo"])

\* a log_transaction that starts the log anew at each call
LogTransactionNewLog(operacao, hash_dados, metadados) ==
    LET transacao ==
            [transaction_id |-> Sha256(<<hash_dados, clock, operacao>>),
             timestamp |-> clock,
             operation |-> operacao,
             asset |-> [data |-> [k \in DOMAIN metadados |-> JsonEncode(metadados[k])]
                                   @@ [content_hash |-> hash_dados,
                                       hash_algorithm |-> "SHA-256",
                                       author |-> "VeriTracePlatform"]]]
    IN  IF \A k \in DOMAIN metadados : JsonSerializable(metadados[k])
        THEN [raised |-> FALSE, value |-> transacao, file |-> JsonFile(<<transacao>>)]
        ELSE [raised |-> TRUE, error |-> "Audit logging failed: BlockchainError",
              file |-> TruncatedFile]

\* AuditLogger.log_transaction, as audit_transaction wraps it: the record is
\* appended to what the file holds (nothing if it is absent, empty or does
\* not parse) and the file is rewritten whole
LogTransaction(operacao, hash_dados, metadados) ==
    LET transacao ==
            [transaction_id |-> Sha256(<<hash_dados, clock, operacao>>),
             timestamp |-> clock,
             operation |-> operacao,
             asset |-> [data |-> [k \in DOMAIN metadados |-> JsonEncode(metadados[k])]
                                   @@ [content_hash |-> hash_dados,
                                       hash_algorithm |-> "SHA-256",
                                       author |-> "VeriTracePlatform"]]]
        registros == IF audit_log.state = "json" THEN audit_log.content ELSE <<>>
    IN  IF \A k \in DOMAIN metadados : JsonSerializable(metadados[k])
        THEN [raised |-> FALSE, value |-> transacao,
              file |-> JsonFile(Append(registros, transacao))]
        ELSE [raised |-> TRUE, error |-> "Audit logging failed: BlockchainError",
              file |-> TruncatedFile]

\* lines 231-241: _generate_data_hash and the audit metadata, then the entry
AuditTransaction(output, source, rows, summary, commit_id) ==
    IF output.path \notin DOMAIN disk
    THEN [raised |-> TRUE, error |-> "FileNotFoundError", file |-> audit_log]
    ELSE LogTransaction("full_pipeline", Sha256(<<output.path, disk[output.path]>>),
                        [source_file |-> PyVal("str", source.path),
                         output_file |-> PyVal("str", output.path),
                         rows_processed |-> PyVal("int", rows),
                         validation_passed |-> summary.validation_passed,
                         commit_id |-> PyVal("str", commit_id)])

\* a register_dataset that replaces the entry of the path
RegisterDatasetReplace(dataset_path, metadata) ==
    LET old == IF catalog.state = "json" THEN catalog.content ELSE EmptyDict
        entry ==
            [last_updated |-> PyVal("str", clock),
             dataset_path |-> PyVal("str", dataset_path)] @@ metadata
    IN  IF \A k \in DOMAIN entry : JsonSerializable(entry[k])
        THEN [raised |-> FALSE, value |-> entry,
              file |-> JsonFile((dataset_path :> [k \in DOMAIN entry |-> JsonEncode(entry[k])])
                                   @@ old)]
        ELSE [raised |-> TRUE, error |-> "TypeError: Object is not JSON serializable",
              file |-> TruncatedFile]

\* MetadataManager.register_dataset: the entry of the path is merged with the
\* metadata and the catalog file is rewritten whole
RegisterDataset(dataset_path, metadata) ==
    LET old == IF catalog.state = "json" THEN catalog.content ELSE EmptyDict
        entry ==
            [last_updated |-> PyVal("str", clock),
             dataset_path |-> PyVal("str", dataset_path)]
                @@ metadata @@ Get(old, dataset_path, EmptyDict)
    IN  IF \A k \in DOMAIN entry : JsonSerializable(entry[k])
        THEN [raised |-> FALSE, value |-> entry,
              file |-> JsonFile((dataset_path :> [k \in DOMAIN entry |-> JsonEncode(entry[k])])
                                   @@ old)]
        ELSE [raised |-> TRUE, error |-> "TypeError: Object is not JSON serializable",
              file |-> TruncatedFile]

\* the stages of full_pipeline, in the order of its statements
StageOrder == <<"ingest", "validate", "write", "version", "audit", "catalog">>

\* a full_pipeline that goes on to the next stage whatever the stage did
NextPcContinue(stage, raised) ==
    IF stage = StageOrder[Len(StageOrder)] THEN "returned"
    ELSE StageOrder[1 + CHOOSE i \in DOMAIN StageOrder : StageOrder[i] = stage]

\* where full_pipeline is after a stage: in the except clause if the stage
\* raised, at the return after the last stage, else at the next stage
NextPc(stage, raised) ==
    IF raised THEN "raised"
    ELSE IF stage = StageOrder[Len(StageOrder)] THEN "returned"
    ELSE StageOrder[1 + CHOOSE i \in DOMAIN StageOrder : StageOrder[i] = stage]

\* a stage has run: r is what it returned or raised
StageEnds(stage, r) ==
    /\ started' = Append(started, stage)
    /\ succeeded' = IF r.raised THEN succeeded ELSE Append(succeeded, stage)
    /\ pc' = NextPc(stage, r.raised)

\* what full_pipeline gives back when it stops here
Outcome(r, returned) == IF r.raised THEN PlatformError(r.error) ELSE returned

\* full_pipeline(source_path, output_path, **kwargs) is called
FullPipelineCall ==
    /\ pc = "idle"
    /\ clock < MaxRuns
    /\ \E source \in SourceFiles, output \in OutputPaths, kwargs \in PipelineKwargs :
          run' = [source |-> source, output |-> output, kwargs |-> kwargs]
    /\ clock' = clock + 1
    /\ started' = <<>>
    /\ succeeded' = <<>>
    /\ results' = [ingestion |-> EmptyDict, validation |-> EmptyDict,
                   versioning |-> EmptyDict, audit |-> EmptyDict, metadata |-> EmptyDict]
    /\ pc' = "ingest"
    /\ UNCHANGED <<detectorVars, df, validation_config, lib, outcome,
                   audit_log, catalog, disk, branches, forest_fits, calls>>

IngestStep(r) ==
    /\ StageEnds("ingest", r)
    /\ df' = IF r.raised THEN df ELSE r.value.dataframe
    /\ results' = IF r.raised THEN results ELSE [results EXCEPT !.ingestion = r.value]
    /\ outcome' = Outcome(r, outcome)

\* lines 208-210
PipelineIngest ==
    /\ pc = "ingest"
    /\ IngestStep(IngestData(run.source, run.kwargs))
    /\ UNCHANGED <<detectorVars, validation_config, lib, run, audit_log, catalog,
                   disk, clock, branches, forest_fits, calls>>

ValidateStep(config, pred, noise, v) ==
    /\ (~DetectorsRun(df) \/ v.if_failed) => pred = {}
    /\ (~DetectorsRun(df) \/ v.dbscan_failed) => noise = {}
    /\ SetDet(v.det)
    /\ validation_config' = config
    /\ lib' = [pred |-> pred, noise |-> noise,
               if_failed |-> v.if_failed, dbscan_failed |-> v.dbscan_failed]
    /\ StageEnds("validate", [raised |-> v.out.kind = "ValidationError", error |-> v.out])
    /\ results' = IF v.out.kind = "ValidationError" THEN results
                  ELSE [results EXCEPT !.validation = v.out]
    /\ outcome' = IF v.out.kind = "ValidationError" THEN PlatformError(v.out) ELSE outcome
    /\ df' = InputAfterPrepare(df)

ValidateWith(config) ==
    \E pred \in LibLabels(df.n), noise \in LibLabels(df.n) :
        ValidateStep(config, pred, noise, ValidateData(df, OrEmpty(config), Det, pred, noise))

\* lines 212-214
PipelineValidate ==
    /\ pc = "validate"
    /\ ValidateWith(Get(run.kwargs, "validation_config", NoneVal))
    /\ UNCHANGED <<run, audit_log, catalog, disk, clock, branches, forest_fits, calls>>

WriteStep(r) ==
    /\ StageEnds("write", r)
    /\ disk' = IF r.raised THEN disk ELSE (run.output.path :> clock) @@ disk
    /\ outcome' = Outcome(r, outcome)

\* lines 216-221
PipelineWrite ==
    /\ pc = "write"
    /\ WriteStep(ToParquet(Processed(df, results.validation), run.output))
    /\ UNCHANGED <<detectorVars, df, validation_config, lib, run, results,
                   audit_log, catalog, clock, branches, forest_fits, calls>>

VersionStep(r) ==
    /\ StageEnds("version", r)
    /\ results' = IF r.raised THEN results ELSE [results EXCEPT !.versioning = r.value]
    /\ outcome' = Outcome(r, outcome)

\* lines 223-229
PipelineVersion ==
    /\ pc = "version"
    /\ VersionStep(CommitData(run.output.path,
                              <<"Processed data from", run.source.path>>,
                              Get(run.kwargs, "branch", "main")))
    /\ UNCHANGED <<detectorVars, df, validation_config, lib, run, audit_log, catalog,
                   disk, clock, branches, forest_fits, calls>>

AuditStep(r) ==
    /\ StageEnds("audit", r)
    /\ audit_log' = r.file
    /\ results' = IF r.raised THEN results ELSE [results EXCEPT !.audit = r.value]
    /\ outcome' = Outcome(r, outcome)

\* lines 231-243
PipelineAudit ==
    /\ pc = "audit"
    /\ AuditStep(AuditTransaction(run.output, run.source, df.n,
                                  TypedSummary(results.validation.summary,
                                               NumpyTotal(results.validation)),
                                  results.versioning.commit_id))
    /\ UNCHANGED <<detectorVars, df, validation_config, lib, run, catalog, disk, clock, branches, forest_fits, calls>>

CatalogStep(r) ==
    /\ StageEnds("catalog", r)
    /\ catalog' = r.file
    /\ results' = IF r.raised THEN results ELSE [results EXCEPT !.metadata = r.value]
    /\ outcome' = Outcome(r, results')

\* lines 245-257
PipelineCatalog ==
    /\ pc = "catalog"
    /\ CatalogStep(RegisterDataset(
          run.output.path,
          [source |-> PyVal("str", run.source.path),
           pipeline_run |-> PyVal("str", results.audit.transaction_id),
           validation_summary |->
              PyVal("dict", TypedSummary(results.validation.summary,
                                         NumpyTotal(results.validation)))]))
    /\ UNCHANGED <<detectorVars, df, validation_config, lib, run, audit_log, disk, clock, branches, forest_fits, calls>>

\* the caller has the results, or the PlatformError
PipelineConsume ==
    /\ pc \in {"returned", "raised"}
    /\ pc' = "idle"
    /\ run' = NoValue
    /\ started' = <<>>
    /\ succeeded' = <<>>
    /\ results' = NoValue
    /\ df' = NoValue
    /\ validation_config' = NoValue
    /\ lib' = NoValue
    /\ outcome' = NoValue
    /\ UNCHANGED <<detectorVars, audit_log, catalog, disk, clock, branches, forest_fits, calls>>

PipelineNext ==
    \/ FullPipelineCall
    \/ PipelineIngest
    \/ PipelineValidate
    \/ PipelineWrite
    \/ PipelineVersion
    \/ PipelineAudit
    \/ PipelineCatalog
    \/ PipelineConsume

\* the platform of the pipeline is built from the default configuration
PipelineInit ==
    /\ Init
    /\ isolation_config = DefaultValidationConfig.isolation_forest
    /\ dbscan_config = DefaultValidationConfig.dbscan

PipelineSpec == PipelineInit /\ [][PipelineNext]_vars

----------------------------------------------------------------------------
(* The three branches of validate_data run side by side: the isolation      *)
(* forest, DBSCAN and the quality validator, each a thread of its own on    *)
(* the one AnomalyDetector. StandardScaler.fit_transform is fit, which      *)
(* resets the fitted attributes and then sets them, and then transform,     *)
(* which reads them.                                                        *)

\* the datasets of a concurrent call: those the detectors run on
ConcDatasets == {d \in Frames : DetectorsRun(d)}

\* a branch at its first statement, and a branch that has its result
BranchAt(at) == [at |-> at, failed |-> FALSE, result |-> NoValue]
BranchDone(failed, result) == [at |-> "done", failed |-> failed, result |-> result]

\* lines 112-115 and 152-154: the parameters of a detector can be looked up
LookupOk(method, own_config) ==
    Get(validation_config, method, EmptyDict) # NoneVal /\ own_config # NoneVal

\* validate_data is called and the three branches start
ConcCall ==
    /\ pc = "idle"
    /\ \E d \in ConcDatasets, config \in ConfigOverrides :
          /\ df' = d
          /\ validation_config' = config
    /\ lib' = [pred |-> {}, noise |-> {}, if_failed |-> FALSE, dbscan_failed |-> FALSE]
    /\ branches' = [det0 |-> Det,
                    isolation_forest |-> BranchAt("lookup"),
                    dbscan |-> BranchAt("lookup"),
                    quality |-> BranchAt("validate")]
    /\ pc' = "running"
    /\ UNCHANGED <<detectorVars, outcome, pipelineVars, forest_fits, calls>>

\* a detector looks its parameters up: the except branch if it cannot
Lookup(method, own_config) ==
    /\ pc = "running"
    /\ branches[method].at = "lookup"
    /\ branches' =
          [branches EXCEPT ![method] =
              IF LookupOk(method, own_config) THEN BranchAt("fit")
              ELSE BranchDone(TRUE, FailSoft(PrepareNumericData(df)))]
    /\ UNCHANGED <<detectorVars, pc, df, validation_config, lib, outcome, pipelineVars, forest_fits, calls>>

\* StandardScaler.fit, first half: _reset deletes the fitted attributes
ScalerReset(method) ==
    /\ pc = "running"
    /\ branches[method].at = "fit"
    /\ scaler' = "unfitted"
    /\ branches' = [branches EXCEPT ![method] = BranchAt("partial_fit")]
    /\ UNCHANGED <<isolation_config, dbscan_config, isolation_forest, dbscan, pca,
                   pc, df, validation_config, lib, outcome, pipelineVars, forest_fits, calls>>

\* StandardScaler.fit, second half: partial_fit sets the fitted attributes
ScalerPartialFit(method) ==
    /\ pc = "running"
    /\ branches[method].at = "partial_fit"
    /\ scaler' = "fitted"
    /\ branches' = [branches EXCEPT ![method] = BranchAt("transform")]
    /\ UNCHANGED <<isolation_config, dbscan_config, isolation_forest, dbscan, pca,
                   pc, df, validation_config, lib, outcome, pipelineVars, forest_fits, calls>>

\* StandardScaler.transform reads the fitted attributes: AttributeError, and
\* so the except branch of the detector, if they are not there
ScalerTransform(method) ==
    /\ pc = "running"
    /\ branches[method].at = "transform"
    /\ branches' =
          [branches EXCEPT ![method] =
              IF scaler = "fitted" THEN BranchAt("model")
              ELSE BranchDone(TRUE, FailSoft(PrepareNumericData(df)))]
    /\ UNCHANGED <<detectorVars, pc, df, validation_config, lib, outcome, pipelineVars, forest_fits, calls>>

IsolationForestEnds(pred, r) ==
    /\ r.failed => pred = {}
    /\ isolation_forest' = r.det.isolation_forest
    /\ lib' = [lib EXCEPT !.pred = pred]
    /\ branches' = [branches EXCEPT !.isolation_forest = BranchDone(r.failed, r.result)]

\* lines 121-143: the isolation forest is built, fitted and asked
IsolationForestModel ==
    /\ pc = "running"
    /\ branches.isolation_forest.at = "model"
    /\ \E pred \in LibLabels(df.n) :
          IsolationForestEnds(pred,
              IsolationForestDetection(PrepareNumericData(df), validation_config, Det, pred))
    /\ UNCHANGED <<isolation_config, dbscan_config, scaler, dbscan, pca,
                   pc, df, validation_config, outcome, pipelineVars, forest_fits, calls>>

DbscanEnds(noise, r) ==
    /\ r.failed => noise = {}
    /\ pca' = r.det.pca
    /\ dbscan' = r.det.dbscan
    /\ lib' = [lib EXCEPT !.noise = noise]
    /\ branches' = [branches EXCEPT !.dbscan = BranchDone(r.failed, r.result)]

\* lines 159-188: PCA on wide data, then DBSCAN is built, fitted and asked
DbscanModel ==
    /\ pc = "running"
    /\ branches.dbscan.at = "model"
    /\ \E noise \in LibLabels(df.n) :
          DbscanEnds(noise,
              DbscanDetection(PrepareNumericData(df), validation_config, Det, noise))
    /\ UNCHANGED <<isolation_config, dbscan_config, scaler, isolation_forest,
                   pc, df, validation_config, outcome, pipelineVars, forest_fits, calls>>

\* the quality branch: DataQualityValidator.validate holds no state
QualityBranch ==
    /\ pc = "running"
    /\ branches.quality.at = "validate"
    /\ branches' = [branches EXCEPT !.quality = BranchDone(FALSE, QualityValidate(df))]
    /\ UNCHANGED <<detectorVars, pc, df, validation_config, lib, outcome, pipelineVars, forest_fits, calls>>

\* what a detector branch hands to the join
BranchResults(b) == [det |-> Det, failed |-> b.failed, result |-> b.result]

\* the three branches are done: the report is put together from their results
Join ==
    /\ pc = "running"
    /\ branches.isolation_forest.at = "done"
    /\ branches.dbscan.at = "done"
    /\ branches.quality.at = "done"
    /\ outcome' = AssembleReport(df,
                      CombineResults(df, PrepareNumericData(df),
                                     BranchResults(branches.isolation_forest),
                                     BranchResults(branches.dbscan)),
                      branches.quality.result).out
    /\ lib' = [lib EXCEPT !.if_failed = branches.isolation_forest.failed,
                          !.dbscan_failed = branches.dbscan.failed]
    /\ pc' = "returned"
    /\ UNCHANGED <<detectorVars, df, validation_config, branches, pipelineVars, forest_fits, calls>>

\* the caller has consumed the report (or the error)
ConcConsume ==
    /\ pc = "returned"
    /\ pc' = "idle"
    /\ df' = NoValue
    /\ validation_config' = NoValue
    /\ lib' = NoValue
    /\ outcome' = NoValue
    /\ branches' = NoValue
    /\ UNCHANGED <<detectorVars, pipelineVars, forest_fits, calls>>

ConcNext ==
    \/ ConcCall
    \/ Lookup("isolation_forest", isolation_config)
    \/ Lookup("dbscan", dbscan_config)
    \/ ScalerReset("isolation_forest")
    \/ ScalerReset("dbscan")
    \/ ScalerPartialFit("isolation_forest")
    \/ ScalerPartialFit("dbscan")
    \/ ScalerTransform("isolation_forest")
    \/ ScalerTransform("dbscan")
    \/ IsolationForestModel
    \/ DbscanModel
    \/ QualityBranch
    \/ Join
    \/ ConcConsume

ConcSpec == Init /\ [][ConcNext]_vars

----------------------------------------------------------------------------
(* Two log_transaction calls on the one log file that overlap (two requests *)
(* served at once). A call builds its record, reads the file, appends the   *)
(* record to what it read, opens the file for writing, which empties it,    *)
(* and dumps the list. calls holds, for each of the two, where it is and    *)
(* its local variables registros and transacao.                             *)

\* both calls are made: the operations audited are their arguments
LogBegin ==
    /\ pc = "idle"
    /\ clock < 2 * MaxRuns
    /\ \E operacao \in [1..2 -> {"ingestao", "validacao"}] :
          calls' = [p \in 1..2 |->
                      [at |-> "called", operacao |-> operacao[p],
                       transacao |-> NoValue, registros |-> <<>>]]
    /\ pc' = "logging"
    /\ UNCHANGED <<detectorVars, df, validation_config, lib, outcome, pipelineVars,
                   branches, forest_fits>>

\* lines 37-63: the record is built, the file is read, the record appended
LogRead(p) ==
    /\ pc = "logging"
    /\ calls[p].at = "called"
    /\ LET r == LogTransaction(calls[p].operacao, Sha256(calls[p].operacao),
                               [source_file |-> PyVal("str", "metrics.json")])
       IN  calls' = [calls EXCEPT ![p] =
                        [at |-> "read", operacao |-> calls[p].operacao,
                         transacao |-> r.value, registros |-> r.file.content]]
    /\ clock' = clock + 1
    /\ UNCHANGED <<detectorVars, df, validation_config, lib, outcome, pc, run, started,
                   succeeded, results, audit_log, catalog, disk, branches, forest_fits>>

\* line 64: open(self.log_file, 'w') empties the file
LogOpen(p) ==
    /\ pc = "logging"
    /\ calls[p].at = "read"
    /\ audit_log' = TruncatedFile
    /\ calls' = [calls EXCEPT ![p].at = "open"]
    /\ UNCHANGED <<detectorVars, df, validation_config, lib, outcome, pc, run, started,
                   succeeded, results, catalog, disk, clock, branches, forest_fits>>

\* lines 65-66: json.dump and the close of the file. If the other call has
\* written since this one opened the file, the two documents overlay each
\* other from the start of the file: what is left is this call's document,
\* or this call's document followed by the tail of a longer one, which does
\* not parse
LogDump(p) ==
    /\ pc = "logging"
    /\ calls[p].at = "open"
    /\ \/ audit_log' = JsonFile(calls[p].registros)
       \/ audit_log.state = "json" /\ audit_log' = TruncatedFile
    /\ calls' = [calls EXCEPT ![p].at = "done"]
    /\ UNCHANGED <<detectorVars, df, validation_config, lib, outcome, pc, run, started,
                   succeeded, results, catalog, disk, clock, branches, forest_fits>>

\* both calls have returned their records
LogDone ==
    /\ pc = "logging"
    /\ \A p \in 1..2 : calls[p].at = "done"
    /\ outcome' = [kind |-> "transactions",
                   value |-> [p \in 1..2 |-> calls[p].transacao]]
    /\ pc' = "returned"
    /\ UNCHANGED <<detectorVars, df, validation_config, lib, pipelineVars, branches,
                   forest_fits, calls>>

LogNext ==
    \/ LogBegin
    \/ \E p \in 1..2 : LogRead(p) \/ LogOpen(p) \/ LogDump(p)
    \/ LogDone
    \/ Consume

LogSpec == Init /\ [][LogNext]_vars

----------------------------------------------------------------------------
(* MetadataManager.register_dataset called on its own, again and again, on  *)
(* two dataset paths.                                                       *)

\* the metadata of a call: one key, another key, both, a numpy count that
\* json.dump refuses, and an entry as an earlier call returned it, handed
\* back with its last_updated and its dataset_path
RegisterMetadata ==
    { [source |-> PyVal("str", "sales.csv")],
      [owner |-> PyVal("str", "ops")],
      [source |-> PyVal("str", "metrics.json"), owner |-> PyVal("str", "qa")],
      [rows |-> PyVal("numpy.int64", MaxRows)],
      [source |-> PyVal("str", "sales.csv"),
       last_updated |-> PyVal("str", 0),
       dataset_path |-> PyVal("str", "processed/a.parquet")] }

\* a caller runs register_dataset(dataset_path, metadata) to its return or
\* raise; datetime.now() moves on
RegisterCall ==
    /\ pc = "idle"
    /\ clock <= MaxRuns
    /\ \E dataset_path \in {o.path : o \in OutputPaths}, metadata \in RegisterMetadata :
          LET r == RegisterDataset(dataset_path, metadata)
          IN  /\ calls' = [dataset_path |-> dataset_path, metadata |-> metadata]
              /\ catalog' = r.file
              /\ outcome' = IF r.raised THEN [kind |-> "raised", cause |-> r.error]
                            ELSE [kind |-> "entry", value |-> r.value]
    /\ clock' = clock + 1
    /\ pc' = "returned"
    /\ UNCHANGED <<detectorVars, df, validation_config, lib, run, started, succeeded,
                   results, audit_log, disk, branches, forest_fits>>

RegisterNext == RegisterCall \/ Consume

RegisterSpec == Init /\ [][RegisterNext]_vars

----------------------------------------------------------------------------
(* Properties of validate_data, on the state a call leaves *)

\* the call has returned a report (it did not raise)
Reported == pc = "returned" /\ outcome.kind = "report"

\* the rows of the report's flag table whose combined flag is set
CombinedRows ==
    {i \in DOMAIN outcome.anomalies.anomaly_flags :
        outcome.anomalies.anomaly_flags[i].combined_anomaly}

\* C1: validation_passed of a report is true exactly when the report's
\* total_anomalies is 0 and its total_quality_issues is 0
C1_ValidationPassedStrict ==
    Reported =>
        (outcome.summary.validation_passed <=>
            (outcome.summary.total_anomalies = 0
             /\ outcome.summary.total_quality_issues = 0))

\* a report with no anomaly and one quality issue, which does not pass
C1_Witness ==
    /\ Reported
    /\ outcome.summary.total_anomalies = 0
    /\ outcome.summary.total_quality_issues = 1
    /\ ~outcome.summary.validation_passed

\* C2: the summary's total_anomalies is the number of rows whose combined flag
\* is set, and anomaly_rate is that number over total_rows (0 for no rows)
C2_SummaryCountsCombinedRows ==
    Reported =>
        /\ outcome.summary.total_anomalies = Cardinality(CombinedRows)
        /\ IF outcome.summary.total_rows > 0
           THEN RatEq(outcome.summary.anomaly_rate,
                      Cardinality(CombinedRows), outcome.summary.total_rows)
           ELSE RatEq(outcome.summary.anomaly_rate, 0, 1)

\* C3: in every row of the flag table the combined flag is the disjunction of
\* the flag the isolation forest returned and the flag DBSCAN returned
C3_UnionLaw ==
    Reported =>
        \A i \in DOMAIN outcome.anomalies.anomaly_flags :
            LET row == outcome.anomalies.anomaly_flags[i]
            IN  /\ row.isolation_forest_anomaly = (i \in lib.pred)
                /\ row.dbscan_anomaly = (i \in lib.noise)
                /\ row.combined_anomaly = (i \in lib.pred \/ i \in lib.noise)

\* a row only the isolation forest flagged, and a row neither flagged
C3_Witness ==
    /\ Reported
    /\ \E i, j \in DOMAIN outcome.anomalies.anomaly_flags :
          /\ i \in lib.pred /\ i \notin lib.noise
          /\ outcome.anomalies.anomaly_flags[i].combined_anomaly
          /\ j \notin lib.pred /\ j \notin lib.noise
          /\ ~outcome.anomalies.anomaly_flags[j].combined_anomaly

\* entry i of the flag table is the detectors' verdict on input row i
RowVerdicts ==
    \A i \in DOMAIN outcome.anomalies.anomaly_flags :
        /\ outcome.anomalies.anomaly_flags[i].isolation_forest_anomaly = (i \in lib.pred)
        /\ outcome.anomalies.anomaly_flags[i].dbscan_anomaly = (i \in lib.noise)

\* C4 as stated: for every dataset the flag table has exactly one entry per
\* input row, entry i being the verdict on row i
C4_OneFlagPerRow ==
    Reported =>
        /\ Len(outcome.anomalies.anomaly_flags) = df.n
        /\ RowVerdicts

\* C4 amended: the flag table has one entry per input row, in input order,
\* when the prepared numeric matrix is not empty; when it is empty (no numeric
\* column, none with a variance, or no row) the flag table has no entry at all
C4_OneFlagPerRowOfMatrix ==
    Reported =>
        IF IsEmpty(PrepareNumericData(df))
        THEN outcome.anomalies.anomaly_flags = EmptyTable
        ELSE /\ Len(outcome.anomalies.anomaly_flags) = df.n
             /\ RowVerdicts

\* a report on a matrix with rows where the detectors differ on the first and
\* the last row
C4_Witness ==
    /\ Reported
    /\ ~IsEmpty(PrepareNumericData(df))
    /\ Len(outcome.anomalies.anomaly_flags) = df.n
    /\ 1 \in lib.pred
    /\ df.n \notin lib.pred
    /\ outcome.anomalies.anomaly_flags[1].isolation_forest_anomaly
    /\ ~outcome.anomalies.anomaly_flags[df.n].isolation_forest_anomaly

\* the report's account of one detector that failed: no row flagged, a count
\* of 0, no details, and the combined column is the other detector's column
FailedSoftly(method, column, other) ==
    /\ outcome.anomalies.anomaly_counts[method] = 0
    /\ outcome.anomalies.model_details[method] = EmptyDict
    /\ Len(outcome.anomalies.anomaly_flags) = df.n
    /\ \A i \in DOMAIN outcome.anomalies.anomaly_flags :
          /\ ~outcome.anomalies.anomaly_flags[i][column]
          /\ outcome.anomalies.anomaly_flags[i].combined_anomaly = (i \in other)

\* C5: a failure inside a detector is not raised: validate_data raises only
\* what the quality branch raised and otherwise returns the whole report, in
\* which the failed detector flags no row and counts 0 and the other
\* detector's flags are the combined flags
C5_FailSoftDetectors ==
    (pc = "returned" /\ (lib.if_failed \/ lib.dbscan_failed)) =>
        /\ outcome.kind = "ValidationError" =>
              (QualityValidate(df).raised /\ outcome.cause = QualityValidate(df).error)
        /\ outcome.kind = "report" =>
              /\ DOMAIN outcome = {"kind", "anomalies", "quality_issues", "summary"}
              /\ lib.if_failed =>
                    FailedSoftly("isolation_forest", "isolation_forest_anomaly", lib.noise)
              /\ lib.dbscan_failed =>
                    FailedSoftly("dbscan", "dbscan_anomaly", lib.pred)

\* the isolation forest failed, DBSCAN flagged a row, and the report has it
C5_Witness ==
    /\ Reported
    /\ lib.if_failed /\ ~lib.dbscan_failed
    /\ lib.noise # {}
    /\ outcome.anomalies.anomaly_counts.dbscan > 0
    /\ CombinedRows = lib.noise

\* an exception left the anomaly branch or the quality branch of the call
BranchRaised == ~df.frame \/ DuplicatedRaises(df)

\* C6: if an exception leaves either branch, validate_data raises one
\* ValidationError that carries the cause and returns no part of a report;
\* otherwise it returns a report with its three parts filled
C6_FailFastOrchestrator ==
    pc = "returned" =>
        IF BranchRaised
        THEN /\ outcome.kind = "ValidationError"
             /\ DOMAIN outcome = {"kind", "cause"}
             /\ outcome.cause \in {"TypeError: object of type 'NoneType' has no len()",
                                   "TypeError: unhashable type: 'list'"}
        ELSE /\ outcome.kind = "report"
             /\ DOMAIN outcome = {"kind", "anomalies", "quality_issues", "summary"}
             /\ "anomaly_flags" \in DOMAIN outcome.anomalies
             /\ "issues" \in DOMAIN outcome.quality_issues
             /\ "validation_passed" \in DOMAIN outcome.summary

\* the quality branch raised after the detectors had flagged a row: the flags
\* are not returned
C6_Witness ==
    /\ pc = "returned"
    /\ df.frame /\ DuplicatedRaises(df)
    /\ lib.pred # {}
    /\ outcome.kind = "ValidationError"

\* the detector object as __init__ leaves it, with this platform's configuration
FreshDet ==
    [isolation_config |-> isolation_config, dbscan_config |-> dbscan_config,
     isolation_forest |-> "None", dbscan |-> "None",
     scaler |-> "unfitted", pca |-> PcaNone]

\* C7: the outcome of a call is the outcome the same dataset, the same
\* configuration and the same library answers give on a detector no call has
\* used before
C7_NoStateBetweenCalls ==
    pc = "returned" =>
        outcome = ValidateData(df, validation_config, FreshDet, lib.pred, lib.noise).out

\* C10: on a dataset with no numeric column each detector counts 0 anomalies,
\* total_anomalies is 0 and validation_passed is true exactly when the
\* quality validator found no issue
C10_NoNumericColumns ==
    (Reported /\ NumericColumns(df) = <<>>) =>
        /\ outcome.anomalies.anomaly_counts.isolation_forest = 0
        /\ outcome.anomalies.anomaly_counts.dbscan = 0
        /\ outcome.summary.total_anomalies = 0
        /\ outcome.summary.validation_passed <=> (outcome.quality_issues.issues = <<>>)

\* a dataset of rows without a numeric column that has a quality issue
C10_Witness ==
    /\ Reported
    /\ df.n > 0 /\ df.cols # <<>>
    /\ NumericColumns(df) = <<>>
    /\ outcome.quality_issues.issues # <<>>
    /\ ~outcome.summary.validation_passed

----------------------------------------------------------------------------
(* Properties of full_pipeline *)

\* C9: the stages of a run start in the order ingest, validate, write,
\* version, audit, catalog; a stage starts only when every stage before it
\* has succeeded; when a stage fails the run raises PlatformError and the
\* failed stage is the last that started; a run that returns ran all six
C9_StagesInOrder ==
    run # NoValue =>
        /\ Len(started) <= Len(StageOrder)
        /\ started = SubSeq(StageOrder, 1, Len(started))
        /\ Len(succeeded) <= Len(started)
        /\ succeeded = SubSeq(started, 1, Len(succeeded))
        /\ pc = "raised" =>
              /\ Len(started) = Len(succeeded) + 1
              /\ outcome.kind = "PlatformError"
        /\ pc # "raised" => started = succeeded
        /\ pc \in Range(StageOrder) => pc = StageOrder[Len(succeeded) + 1]
        /\ pc = "returned" => succeeded = StageOrder

\* the audit stage failed after four stages had succeeded: the catalog stage
\* did not start, and the run raised PlatformError
C9_Witness ==
    /\ pc = "raised"
    /\ started = <<"ingest", "validate", "write", "version", "audit">>
    /\ succeeded = <<"ingest", "validate", "write", "version">>
    /\ outcome.kind = "PlatformError"
    /\ results.metadata = EmptyDict

----------------------------------------------------------------------------
(* Properties of the branches run side by side *)

\* C8: whatever the interleaving of the steps of the three branches, the
\* report of the call is the report validate_data gives when it runs the
\* branches one after another on the same detector, dataset, configuration
\* and library answers
C8_InterleavingsAgree ==
    (pc = "returned" /\ branches # NoValue) =>
        outcome = ValidateData(df, validation_config, branches.det0,
                               lib.pred, lib.noise).out

----------------------------------------------------------------------------
(* Properties of the edge cases, of feature preparation and of the quality  *)
(* rules                                                                    *)

\* the anomaly part of the report is the full result of detect_anomalies
\* (lines 45-86), whose summary is a dict with the rate; the early return of
\* lines 39-43 has a text for its summary
FullAnomalyResult == "model_details" \in DOMAIN outcome.anomalies

\* C11: on a dataset of no rows validate_data returns a report (no
\* division-by-zero fault) whose anomaly report has the rate 0, whose
\* summary has total_rows 0, and whose validation_passed is true if the
\* quality validator returned no issue
C11_ZeroRows ==
    (pc = "returned" /\ df.frame /\ df.n = 0) =>
        /\ outcome.kind = "report"
        /\ FullAnomalyResult
        /\ RatEq(outcome.anomalies.summary.anomaly_rate, 0, 1)
        /\ outcome.summary.total_rows = 0
        /\ (outcome.quality_issues.issues = <<>>) => outcome.summary.validation_passed

\* what the detector is run on, as the caller gave it: the matrix, the
\* contamination and the seed of the call
ForestInputs ==
    [X |-> PrepareNumericData(df),
     contamination |-> IsolationContamination(validation_config, Det),
     random_state |-> IsolationRandomState(validation_config, Det)]

\* C12: a call of the isolation-forest detector flags the rows that the first
\* call with the same matrix, the same contamination and the same seed flagged
C12_SameInputsSameFlags ==
    (/\ pc = "returned"
     /\ outcome.kind = "detector_result"
     /\ ~lib.if_failed
     /\ ForestInputs \in DOMAIN forest_fits) =>
        outcome.flags = [i \in 1..df.n |-> i \in forest_fits[ForestInputs].labels]

\* the detector has been called a second time on the same matrix with the
\* same contamination and seed, and again flags the first row alone
C12_Witness ==
    /\ pc = "returned"
    /\ outcome.kind = "detector_result"
    /\ ~lib.if_failed
    /\ ForestInputs \in DOMAIN forest_fits
    /\ forest_fits[ForestInputs].fits = 2
    /\ outcome.flags = [i \in 1..df.n |-> i = 1]

C14_PrepareKeepsRows ==
    (pc = "returned" /\ df.frame /\ NumericColumns(df) # <<>>) =>
        LET numeric_data == PrepareNumericData(df)
        IN  /\ numeric_data.n = df.n
            /\ \A c \in DOMAIN numeric_data.cols :
                  /\ Len(numeric_data.cols[c].vals) = df.n
                  /\ \E k \in DOMAIN df.cols :
                        /\ df.cols[k].name = numeric_data.cols[c].name
                        /\ df.cols[k].dtype = "float64"
                        /\ \A i \in 1..df.n :
                              IF IsNull(df.cols[k].vals[i])
                              THEN ~IsNull(numeric_data.cols[c].vals[i])
                              ELSE numeric_data.cols[c].vals[i] = Num(2 * df.cols[k].vals[i].v)

\* a dataset of several rows whose first cell is missing and whose last is
\* not: the matrix keeps the first row, filled, and the last row in its place
C14_Witness ==
    /\ pc = "returned"
    /\ df.frame
    /\ df.n > 1
    /\ \E k \in DOMAIN df.cols :
          /\ df.cols[k].dtype = "float64"
          /\ IsNull(df.cols[k].vals[1])
          /\ ~IsNull(df.cols[k].vals[df.n])
          /\ \E c \in DOMAIN PrepareNumericData(df).cols :
                /\ PrepareNumericData(df).cols[c].name = df.cols[k].name
                /\ Len(PrepareNumericData(df).cols[c].vals) = df.n
                /\ ~IsNull(PrepareNumericData(df).cols[c].vals[1])
                /\ PrepareNumericData(df).cols[c].vals[df.n] = Num(2 * df.cols[k].vals[df.n].v)
    /\ Len(PrepareNumericData(df).cols) < Len(NumericColumns(df))

\* DataQualityValidator.validate has returned its list of issues
QualityReturned == pc = "returned" /\ outcome.kind = "quality_result"

\* the places in the list of the issues of one type on one column
IssuesAt(type, column) ==
    {i \in DOMAIN outcome.issues :
        outcome.issues[i].type = type /\ outcome.issues[i].column = column}

\* the names of the dataset's columns
ColumnNames == {df.cols[c].name : c \in DOMAIN df.cols}

\* C15: a column has one missing_values issue if it has a null cell and none
\* otherwise; the issue's count is the number of null cells, its percentage
\* 100*count/row_count, its severity high above 50 percent, medium above 10
\* and up to 50, low otherwise
C15_MissingValueRule ==
    QualityReturned =>
        /\ \A c \in DOMAIN df.cols :
              LET nulls == Cardinality({r \in 1..df.n : IsNull(df.cols[c].vals[r])})
              IN  /\ Cardinality(IssuesAt("missing_values", df.cols[c].name))
                        = IF nulls >= 1 THEN 1 ELSE 0
                  /\ \A i \in IssuesAt("missing_values", df.cols[c].name) :
                        /\ outcome.issues[i].count = nulls
                        /\ RatEq(outcome.issues[i].percentage, 100 * nulls, df.n)
                        /\ outcome.issues[i].severity =
                              IF 100 * nulls > 50 * df.n THEN "high"
                              ELSE IF 100 * nulls > 10 * df.n THEN "medium"
                              ELSE "low"
        /\ \A i \in DOMAIN outcome.issues :
              outcome.issues[i].type = "missing_values" =>
                  outcome.issues[i].column \in ColumnNames

\* 60 null cells in a column of 100 rows: count 60, percentage 60.0, high
C15_Witness ==
    /\ QualityReturned
    /\ df.n = 100
    /\ \E i \in DOMAIN outcome.issues :
          /\ outcome.issues[i].type = "missing_values"
          /\ outcome.issues[i].count = 60
          /\ RatEq(outcome.issues[i].percentage, 60, 1)
          /\ outcome.issues[i].severity = "high"

\* C16: the list has one duplicate_rows issue, on 'all_columns', if some row
\* repeats an earlier row in every column, and none otherwise; its count is
\* the number of such rows, its percentage 100*count/row_count, its severity
\* medium above 5 percent and low otherwise
C16_DuplicateRule ==
    QualityReturned =>
        LET at == {i \in DOMAIN outcome.issues : outcome.issues[i].type = "duplicate_rows"}
            repeats == {r \in 1..df.n :
                          /\ df.cols # <<>>
                          /\ \E q \in 1..(r - 1) :
                                \A c \in DOMAIN df.cols :
                                    df.cols[c].vals[q] = df.cols[c].vals[r]}
        IN  /\ Cardinality(at) = IF Cardinality(repeats) > 0 THEN 1 ELSE 0
            /\ \A i \in at :
                  /\ outcome.issues[i].column = "all_columns"
                  /\ outcome.issues[i].count = Cardinality(repeats)
                  /\ RatEq(outcome.issues[i].percentage, 100 * Cardinality(repeats), df.n)
                  /\ outcome.issues[i].severity =
                        IF 100 * Cardinality(repeats) > 5 * df.n THEN "medium" ELSE "low"

\* one repeated row in a dataset of 20 rows (5 percent exactly): low
C16_Witness ==
    /\ QualityReturned
    /\ df.n = 20
    /\ \E i \in DOMAIN outcome.issues :
          /\ outcome.issues[i].type = "duplicate_rows"
          /\ outcome.issues[i].column = "all_columns"
          /\ outcome.issues[i].count = 1
          /\ RatEq(outcome.issues[i].percentage, 5, 1)
          /\ outcome.issues[i].severity = "low"

\* C17: a column has one data_type_mismatch issue, suggesting the type
\* numeric with severity medium, if it is a text (object) column and each of
\* its cells that is not null is a number or the text of a number; it has
\* none if one cell is anything else, or if the column is not a text column
C17_TypeMismatchRule ==
    QualityReturned =>
        /\ \A c \in DOMAIN df.cols :
              LET textual == df.cols[c].dtype = "object"
                  parses == \A r \in 1..df.n :
                               \/ df.cols[c].vals[r].k \in {"null", "num"}
                               \/ /\ df.cols[c].vals[r].k = "str"
                                  /\ df.cols[c].vals[r].s \in {"12", "7"}
              IN  /\ Cardinality(IssuesAt("data_type_mismatch", df.cols[c].name))
                        = IF textual /\ parses THEN 1 ELSE 0
                  /\ \A i \in IssuesAt("data_type_mismatch", df.cols[c].name) :
                        /\ outcome.issues[i].suggested_type = "numeric"
                        /\ outcome.issues[i].severity = "medium"
        /\ \A i \in DOMAIN outcome.issues :
              outcome.issues[i].type = "data_type_mismatch" =>
                  outcome.issues[i].column \in ColumnNames

\* a text column of numbers with a null cell is reported, beside a text
\* column that is ruled out by its one word among the numbers
C17_Witness ==
    /\ QualityReturned
    /\ df.n > 2
    /\ \E c, e \in DOMAIN df.cols :
          /\ df.cols[c].dtype = "object"
          /\ IsNull(df.cols[c].vals[1])
          /\ df.cols[c].vals[df.n] = Str("12")
          /\ IssuesAt("data_type_mismatch", df.cols[c].name) # {}
          /\ df.cols[e].dtype = "object"
          /\ df.cols[e].vals[1] = Str("abc")
          /\ df.cols[e].vals[2] = Str("7")
          /\ IssuesAt("data_type_mismatch", df.cols[e].name) = {}

\* the cells of a column that lie more than 3 standard deviations from the
\* column's mean, over its m cells that hold a value, with sum s and sum of
\* squares q:  |x - s/m| > 3 sqrt((q - s*s/m) / (m - 1));  none when the
\* standard deviation is zero or undefined
FarCells(vals) ==
    LET held == {r \in DOMAIN vals : vals[r].k = "num"}
        m == Cardinality(held)
        s == SumRange([r \in DOMAIN vals |-> IF r \in held THEN vals[r].v ELSE 0],
                      1, Len(vals))
        q == SumRange([r \in DOMAIN vals |-> IF r \in held THEN vals[r].v * vals[r].v ELSE 0],
                      1, Len(vals))
    IN  IF m < 2 \/ m * q = s * s THEN {}
        ELSE {r \in held :
                (m * vals[r].v - s) * (m * vals[r].v - s) * (m - 1)
                    > 9 * m * (m * q - s * s)}

\* C18: a numeric column has one outliers issue if its standard deviation is
\* not zero and some cell has |z-score| > 3 against the column's own mean and
\* standard deviation, and none otherwise; the issue's count is the number of
\* such cells, its percentage 100*count/row_count, its method 'z_score', its
\* threshold 3, its severity medium above 5 percent and low otherwise
C18_OutlierRule ==
    QualityReturned =>
        /\ \A c \in DOMAIN df.cols :
              LET far == IF df.cols[c].dtype = "float64"
                         THEN Cardinality(FarCells(df.cols[c].vals)) ELSE 0
              IN  /\ Cardinality(IssuesAt("outliers", df.cols[c].name))
                        = IF far > 0 THEN 1 ELSE 0
                  /\ \A i \in IssuesAt("outliers", df.cols[c].name) :
                        /\ outcome.issues[i].count = far
                        /\ RatEq(outcome.issues[i].percentage, 100 * far, df.n)
                        /\ outcome.issues[i].method = "z_score"
                        /\ outcome.issues[i].threshold = 3
                        /\ outcome.issues[i].severity =
                              IF 100 * far > 5 * df.n THEN "medium" ELSE "low"
        /\ \A i \in DOMAIN outcome.issues :
              outcome.issues[i].type = "outliers" =>
                  outcome.issues[i].column \in ColumnNames

\* 4 cells beyond 3 standard deviations in a column of 100 rows: count 4,
\* percentage 4.0, low, beside a column with one value, which has no issue
C18_Witness ==
    /\ QualityReturned
    /\ df.n = 100
    /\ \E i \in DOMAIN outcome.issues :
          /\ outcome.issues[i].type = "outliers"
          /\ outcome.issues[i].count = 4
          /\ RatEq(outcome.issues[i].percentage, 4, 1)
          /\ outcome.issues[i].severity = "low"
          /\ outcome.issues[i].method = "z_score"
          /\ outcome.issues[i].threshold = 3
    /\ \E c \in DOMAIN df.cols :
          /\ df.cols[c].dtype = "float64"
          /\ \A r \in 1..df.n : df.cols[c].vals[r] \in {Null, Num(0)}
          /\ IssuesAt("outliers", df.cols[c].name) = {}

\* C19: in the list of issues the missing-values issues come first, then the
\* duplicate-rows issue, then the type-mismatch issues, then the outlier
\* issues; the issues of one rule are in the order of the dataset's columns;
\* and the issues of each rule are those the rule finds on the dataset by
\* itself
C19_IssueOrder ==
    QualityReturned =>
        LET issues == outcome.issues
            rank == [missing_values |-> 1, duplicate_rows |-> 2,
                     data_type_mismatch |-> 3, outliers |-> 4]
            place == [i \in DOMAIN issues |->
                        IF issues[i].column = "all_columns" THEN 0
                        ELSE CHOOSE c \in DOMAIN df.cols : df.cols[c].name = issues[i].column]
            n1 == Len(CheckMissingValues(df))
            n2 == Len(CheckDuplicates(df))
            n3 == Len(CheckDataTypes(df))
            n4 == Len(CheckOutliers(df))
        IN  /\ \A i, j \in DOMAIN issues :
                  i < j =>
                      /\ rank[issues[i].type] <= rank[issues[j].type]
                      /\ issues[i].type = issues[j].type => place[i] < place[j]
            /\ Len(issues) = n1 + n2 + n3 + n4
            /\ SubSeq(issues, 1, n1) = CheckMissingValues(df)
            /\ SubSeq(issues, n1 + 1, n1 + n2) = CheckDuplicates(df)
            /\ SubSeq(issues, n1 + n2 + 1, n1 + n2 + n3) = CheckDataTypes(df)
            /\ SubSeq(issues, n1 + n2 + n3 + 1, Len(issues)) = CheckOutliers(df)

\* a dataset of six columns on which every rule finds something: missing
\* values in four columns, repeated rows, two text columns of numbers, two
\* columns with an outlier
C19_Witness ==
    /\ QualityReturned
    /\ Len(df.cols) = 6
    /\ Len(outcome.issues) = 9
    /\ [i \in 1..9 |-> outcome.issues[i].type] =
          <<"missing_values", "missing_values", "missing_values", "missing_values",
            "duplicate_rows", "data_type_mismatch", "data_type_mismatch",
            "outliers", "outliers">>
    /\ [i \in 1..9 |-> outcome.issues[i].column] =
          <<"c1", "c2", "c4", "c5", "all_columns", "c2", "c5", "c3", "c6">>

\* C20 as stated: every issue of the list has a type among missing_values,
\* duplicate_rows, data_type_mismatch and outliers, a column, a count, a
\* percentage, and a severity among low, medium and high
C20_IssueFields ==
    QualityReturned =>
        \A i \in DOMAIN outcome.issues :
            /\ {"type", "column", "count", "percentage", "severity"}
                  \subseteq DOMAIN outcome.issues[i]
            /\ outcome.issues[i].type \in
                  {"missing_values", "duplicate_rows", "data_type_mismatch", "outliers"}
            /\ outcome.issues[i].column \in ColumnNames \cup {"all_columns"}
            /\ outcome.issues[i].severity \in {"low", "medium", "high"}

\* C20 amended: every issue has a type among the four, a column (or
\* 'all_columns') and a severity among low, medium and high; the issues of
\* the types missing_values, duplicate_rows and outliers have a count and a
\* percentage; a data_type_mismatch issue has neither, it has the current and
\* the suggested type
C20_IssueFieldsByType ==
    QualityReturned =>
        \A i \in DOMAIN outcome.issues :
            /\ {"type", "column", "severity"} \subseteq DOMAIN outcome.issues[i]
            /\ outcome.issues[i].type \in
                  {"missing_values", "duplicate_rows", "data_type_mismatch", "outliers"}
            /\ outcome.issues[i].column \in ColumnNames \cup {"all_columns"}
            /\ outcome.issues[i].severity \in {"low", "medium", "high"}
            /\ IF outcome.issues[i].type = "data_type_mismatch"
               THEN DOMAIN outcome.issues[i] =
                      {"type", "column", "current_type", "suggested_type", "severity"}
               ELSE {"count", "percentage"} \subseteq DOMAIN outcome.issues[i]

\* a list with an issue of each of the four types
C20_Witness ==
    /\ QualityReturned
    /\ {outcome.issues[i].type : i \in DOMAIN outcome.issues} =
          {"missing_values", "duplicate_rows", "data_type_mismatch", "outliers"}
    /\ \E i \in DOMAIN outcome.issues :
          /\ outcome.issues[i].type = "data_type_mismatch"
          /\ "count" \notin DOMAIN outcome.issues[i]

----------------------------------------------------------------------------
(* Properties of the explainer, of the detector parameters, of the report   *)
(* totals and of the audit log and the catalog                              *)

\* C21: every reason explain_anomalies reports for a flagged row and a column
\* carries the mean and the (sample) standard deviation of that column over
\* the rows that are not flagged, missing cells skipped, and a z-score that
\* is the row's distance from that mean in those standard deviations.
C21_ReferencePopulation ==
    (pc = "returned" /\ outcome.kind = "explanations") =>
        \A k \in DOMAIN outcome.value.anomaly_explanations :
            LET e == outcome.value.anomaly_explanations[k]
            IN  \A j \in DOMAIN e.anomaly_reasons :
                LET reason == e.anomaly_reasons[j]
                    col == CHOOSE c \in Range(df.cols) : c.name = reason.column
                    x   == [i \in 1..df.n |->
                              IF i \notin calls.anomaly_flags /\ ~IsNull(col.vals[i])
                              THEN col.vals[i].v ELSE 0]
                    m   == Cardinality({i \in 1..df.n :
                              i \notin calls.anomaly_flags /\ ~IsNull(col.vals[i])})
                    s   == SumRange(x, 1, df.n)
                    q   == SumRange([i \in 1..df.n |-> x[i] * x[i]], 1, df.n)
                    d   == m * reason.value - s
                IN  /\ reason.value = col.vals[e.row_index + 1].v
                    /\ m >= 2
                    /\ RatEq(reason.normal_mean, s, m)
                    /\ RatEq(reason.normal_std.sqrt_of, m * q - s * s, m * (m - 1))
                    /\ RatEq(reason.z_score.sqrt_of, d * d * (m - 1), m * (m * q - s * s))

\* a reason is reported for a flagged row whose own value would move the
\* mean of its column, were it counted in
C21_Witness ==
    /\ pc = "returned" /\ outcome.kind = "explanations"
    /\ \E k \in DOMAIN outcome.value.anomaly_explanations :
          LET e == outcome.value.anomaly_explanations[k]
          IN  /\ e.anomaly_reasons # <<>>
              /\ ~RatEq(e.anomaly_reasons[1].normal_mean, e.anomaly_reasons[1].value, 1)

\* C22: explain_anomalies returns one explanation for each of the first
\* min(top_n, number of flagged rows) flagged rows, in the order of the rows
\* of the dataset, and nothing else: the j-th explanation is about the j-th
\* flagged row.
C22_FirstFlaggedRows ==
    (pc = "returned" /\ outcome.kind = "explanations") =>
        LET flagged == calls.anomaly_flags
            e == outcome.value.anomaly_explanations
        IN  /\ Len(e) = Min(calls.top_n, Cardinality(flagged))
            /\ \A j \in DOMAIN e :
                  /\ e[j].row_index + 1 \in flagged
                  /\ Cardinality({i \in flagged : i < e[j].row_index + 1}) = j - 1

\* more rows are flagged than top_n lets through, and the first row of the
\* dataset is not flagged
C22_Witness ==
    /\ pc = "returned" /\ outcome.kind = "explanations"
    /\ calls.top_n >= 1
    /\ Cardinality(calls.anomaly_flags) > calls.top_n
    /\ 1 \notin calls.anomaly_flags
    /\ Len(outcome.value.anomaly_explanations) = calls.top_n

\* C24: in an explanation of a flagged row a numeric column is listed as a
\* reason, once, exactly when its standard deviation over the rows that are
\* not flagged is above 0 and the row's value lies more than 2 of those
\* standard deviations from their mean; the severity is high above 3 and
\* medium from above 2 up to 3; no other column is listed, so a column that
\* does not vary among the rows that are not flagged never is.
C24_ReasonRule ==
    (pc = "returned" /\ outcome.kind = "explanations") =>
        \A k \in DOMAIN outcome.value.anomaly_explanations :
            LET e == outcome.value.anomaly_explanations[k]
                row == e.row_index + 1
                at(name) == {j \in DOMAIN e.anomaly_reasons : e.anomaly_reasons[j].column = name}
            IN  /\ \A j \in DOMAIN e.anomaly_reasons :
                      \E c \in DOMAIN df.cols :
                          df.cols[c].name = e.anomaly_reasons[j].column /\ df.cols[c].dtype = "float64"
                /\ \A c \in DOMAIN df.cols :
                    LET col == df.cols[c]
                        rest == {i \in 1..df.n : i \notin calls.anomaly_flags /\ ~IsNull(col.vals[i])}
                        m   == Cardinality(rest)
                        x   == [i \in 1..df.n |-> IF i \in rest THEN col.vals[i].v ELSE 0]
                        s   == SumRange(x, 1, df.n)
                        q   == SumRange([i \in 1..df.n |-> x[i] * x[i]], 1, df.n)
                        d   == m * col.vals[row].v - s
                        std_positive == m >= 2 /\ m * q - s * s > 0
                        beyond(t) == /\ std_positive
                                     /\ ~IsNull(col.vals[row])
                                     /\ d * d * (m - 1) > t * t * m * (m * q - s * s)
                    IN  col.dtype = "float64" =>
                          /\ Cardinality(at(col.name)) = IF beyond(2) THEN 1 ELSE 0
                          /\ \A j \in at(col.name) :
                                e.anomaly_reasons[j].severity =
                                    IF beyond(3) THEN "high" ELSE "medium"

\* two flagged rows are explained beside a column that does not vary: one
\* value exactly 3 standard deviations away (medium), one further (high)
C24_Witness ==
    /\ pc = "returned" /\ outcome.kind = "explanations"
    /\ Len(NumericColumns(df)) = 2
    /\ \E k1, k2 \in DOMAIN outcome.value.anomaly_explanations :
          LET r1 == outcome.value.anomaly_explanations[k1].anomaly_reasons
              r2 == outcome.value.anomaly_explanations[k2].anomaly_reasons
          IN  /\ Len(r1) = 1 /\ Len(r2) = 1
              /\ r1[1].severity = "medium" /\ RatEq(r1[1].z_score.sqrt_of, 9, 1)
              /\ r2[1].severity = "high"

\* C23: each parameter a detector looks up is the per-call override's value
\* when the override sets that key, else the platform configuration's value
\* when it sets the key, else the default (contamination 0.01, random_state
\* 42, eps 0.5, min_samples 5); so a parameter depends on its own key only.
C23_ParameterLookup ==
    (pc = "returned" /\ calls # NoValue) =>
        LET from(section, own_config, key, default) ==
                IF section \in DOMAIN validation_config
                      /\ key \in DOMAIN validation_config[section]
                THEN validation_config[section][key]
                ELSE IF key \in DOMAIN own_config THEN own_config[key]
                ELSE default
        IN  /\ calls.isolation_forest # NoValue =>
                /\ calls.isolation_forest.contamination =
                      from("isolation_forest", isolation_config, "contamination", 1)
                /\ calls.isolation_forest.random_state =
                      from("isolation_forest", isolation_config, "random_state", 42)
            /\ calls.dbscan # NoValue =>
                /\ calls.dbscan.eps = from("dbscan", dbscan_config, "eps", 5)
                /\ calls.dbscan.min_samples =
                      from("dbscan", dbscan_config, "min_samples", 5)

\* the override sets eps only, the platform configuration sets contamination
\* and min_samples only: one parameter from each of the three places
C23_Witness ==
    /\ pc = "returned" /\ calls # NoValue
    /\ validation_config = [dbscan |-> [eps |-> 0]]
    /\ isolation_config = [contamination |-> 5]
    /\ calls.dbscan = [eps |-> 0, min_samples |-> 3]
    /\ calls.isolation_forest = [contamination |-> 5, random_state |-> 42]

\* C25: in every report of validate_data the summary's total_anomalies is at
\* most its total_rows and its anomaly_rate lies between 0 and 1, whichever
\* rows each detector flags, the rows both flag included.
C25_TotalsWithinRows ==
    Reported =>
        /\ outcome.summary.total_anomalies <= outcome.summary.total_rows
        /\ outcome.summary.anomaly_rate.num >= 0
        /\ outcome.summary.anomaly_rate.num <= outcome.summary.anomaly_rate.den

\* C26: a full_pipeline run that raises PlatformError leaves the audit log and
\* the catalog as they were before the run. The two files change in the audit
\* stage and in the catalog stage only, and an audit stage that succeeds adds
\* a record; so the step into the except clause changes neither file, and no
\* audit stage has succeeded in a run that raises.
C26_FailedRunLeavesNoTrace ==
    [][pc' = "raised" =>
          /\ audit_log' = audit_log
          /\ catalog' = catalog
          /\ "audit" \notin Range(succeeded')]_vars

\* C27: the audit log is append-only. A log_transaction call that succeeds
\* leaves a log that parses, holds every record the log held before the call,
\* unchanged and in the same order, and ends with the record of the call.
C27_AuditLogAppendOnly ==
    [][(pc = "audit" /\ pc' # "raised") =>
          /\ audit_log'.state = "json"
          /\ Len(audit_log'.content) = Len(audit_log.content) + 1
          /\ \A i \in DOMAIN audit_log.content : audit_log'.content[i] = audit_log.content[i]
          /\ audit_log'.content[Len(audit_log'.content)] = results'.audit]_vars

\* the log holds the records of two runs, the earlier one first
C27_Witness ==
    /\ audit_log.state = "json"
    /\ Len(audit_log.content) = 2
    /\ audit_log.content[1].timestamp < audit_log.content[2].timestamp
    /\ results # NoValue
    /\ results.audit = audit_log.content[2]

\* C28: when two log_transaction calls on the one log file overlap, the
\* records of both are in the log file once both have returned, however
\* their reads and writes interleave.
C28_OverlappingCallsBothLogged ==
    (pc = "returned" /\ outcome.kind = "transactions") =>
        /\ audit_log.state = "json"
        /\ \A p \in 1..2 : outcome.value[p] \in Range(audit_log.content)

\* C29: register_dataset merges. After a call for path p with metadata m that
\* succeeds, the catalog entry of p holds every key of m with m's value, every
\* key of p's earlier entry that m does not set with its earlier value,
\* dataset_path = p and the time of the call as last_updated; the entries of
\* the other paths are as they were.
C29_RegisterMerges ==
    [][(pc = "idle" /\ pc' = "returned" /\ outcome'.kind = "entry") =>
          LET p == calls'.dataset_path
              m == calls'.metadata
              earlier == Get(catalog.content, p, EmptyDict)
              entry == catalog'.content[p]
          IN  /\ catalog'.state = "json"
              /\ DOMAIN catalog'.content = DOMAIN catalog.content \cup {p}
              /\ \A other \in DOMAIN catalog.content \ {p} :
                    catalog'.content[other] = catalog.content[other]
              /\ DOMAIN entry = DOMAIN m \cup DOMAIN earlier \cup {"dataset_path", "last_updated"}
              /\ \A k \in DOMAIN m : entry[k] = m[k]
              /\ \A k \in DOMAIN earlier \ DOMAIN m :
                    k \notin {"dataset_path", "last_updated"} => entry[k] = earlier[k]
              /\ entry.dataset_path = PyVal("str", p)
              /\ entry.last_updated = PyVal("str", clock)]_vars

\* C29 as the code has it: the keys dataset_path and last_updated are the
\* catalog's own. The entry holds every other key of m with m's value, every
\* other key of the earlier entry that m does not set with its earlier value,
\* dataset_path = p and the time of the call as last_updated, whatever m says
\* of these two; the entries of the other paths are as they were.
C29_RegisterMergesOwnKeys ==
    [][(pc = "idle" /\ pc' = "returned" /\ outcome'.kind = "entry") =>
          LET p == calls'.dataset_path
              m == calls'.metadata
              earlier == Get(catalog.content, p, EmptyDict)
              entry == catalog'.content[p]
              own == {"dataset_path", "last_updated"}
          IN  /\ catalog'.state = "json"
              /\ DOMAIN catalog'.content = DOMAIN catalog.content \cup {p}
              /\ \A other \in DOMAIN catalog.content \ {p} :
                    catalog'.content[other] = catalog.content[other]
              /\ DOMAIN entry = DOMAIN m \cup DOMAIN earlier \cup own
              /\ \A k \in DOMAIN m \ own : entry[k] = m[k]
              /\ \A k \in DOMAIN earlier \ (DOMAIN m \cup own) : entry[k] = earlier[k]
              /\ entry.dataset_path = PyVal("str", p)
              /\ entry.last_updated = PyVal("str", clock)]_vars

\* the catalog holds two paths; the entry of the path just registered keeps a
\* key of its earlier entry that the metadata of this call did not set
C29_Witness ==
    /\ pc = "returned" /\ outcome.kind = "entry"
    /\ catalog.state = "json"
    /\ Cardinality(DOMAIN catalog.content) = 2
    /\ "owner" \notin DOMAIN calls.metadata
    /\ "owner" \in DOMAIN catalog.content[calls.dataset_path]
    /\ catalog.content[calls.dataset_path].source = calls.metadata.source

\* C30: in every result of DataQualityValidator.validate, total_issues, the
\* summary's total_issues, the length of the issues list and the sum of the
\* three severity counts are one number, and the summary's
\* columns_with_issues are exactly the columns some issue names, 'all_columns'
\* left out.
C30_QualityTotals ==
    (pc = "returned" /\ outcome.kind = "quality_result") =>
        /\ outcome.total_issues = Len(outcome.issues)
        /\ outcome.summary.total_issues = Len(outcome.issues)
        /\ outcome.summary.severity_counts.high + outcome.summary.severity_counts.medium
              + outcome.summary.severity_counts.low = Len(outcome.issues)
        /\ \A c \in outcome.summary.columns_with_issues :
              c # "all_columns" /\ \E i \in DOMAIN outcome.issues : outcome.issues[i].column = c
        /\ \A i \in DOMAIN outcome.issues :
              outcome.issues[i].column # "all_columns" =>
                  outcome.issues[i].column \in outcome.summary.columns_with_issues

\* a result with issues of two severities, one of them on 'all_columns', and
\* a column named by more than one issue
C30_Witness ==
    /\ pc = "returned" /\ outcome.kind = "quality_result"
    /\ outcome.summary.severity_counts.medium > 0
    /\ outcome.summary.severity_counts.low > 0
    /\ \E i \in DOMAIN outcome.issues : outcome.issues[i].column = "all_columns"
    /\ Cardinality(outcome.summary.columns_with_issues) + 1 < Len(outcome.issues)

====
